---- MODULE Spec2Model ----
(***************************************************************************)
(* A model of the simulation facade of openfisca-uk / policyengine-uk:     *)
(* Microsimulation (microdata/simulation.py): construction over a dataset, *)
(* reform application, calc with its three period-access modes, entity     *)
(* mapping and weighting, and deriv with its perturbed sibling             *)
(* simulations; and the construction sequence of the later                 *)
(* Microsimulation of tools/simulation.py.                                 *)
(*                                                                         *)
(* Amounts are fixed-point numbers in thousandths (1.234 is 1234), so that *)
(* rounding to two decimals is visible.  Arrays are sequences, one entry   *)
(* per instance of an entity, tagged with their dtype; booleans are 0/1.   *)
(***************************************************************************)
EXTENDS Integers, Sequences, FiniteSets, TLC

VARIABLES
    dataset,    \* the dataset object handed to every Microsimulation
    classes,    \* the Python variable classes: class id -> its formula attribute
    nextObj,    \* allocation counter of system / simulation objects
    sims,       \* the Microsimulation objects built so far, in order of construction
    outcome,    \* how the last facade call ended and what it did on the way
    tools,      \* the construction of a tools.Microsimulation, step by step
    relief,     \* the evaluation of a variable of income_tax/relief.py, request by request
    benefit     \* the last evaluation of pension_credit or of bi_phaseout over the population

vars == <<dataset, classes, nextObj, sims, outcome, tools, relief, benefit>>

(***************************************************************************)
(* Bounds of the model.                                                    *)
(***************************************************************************)
MaxSims == 2
MaxGroupLimit == 2
MaxFileYears == 2

(***************************************************************************)
(* Program constants.                                                      *)
(***************************************************************************)
DefaultYear == 2020
BoolSumThreshold == 52
DefaultDelta == 100

Unit == 10 * 10 * 10              \* one pound in thousandths
Months == 1 .. 12
NoneVal == "None"

(***************************************************************************)
(* Sequence helpers.                                                       *)
(***************************************************************************)
RECURSIVE SumSeq(_)
SumSeq(s) == IF s = <<>> THEN 0 ELSE Head(s) + SumSeq(Tail(s))

MaxOf(S) == CHOOSE x \in S : \A y \in S : y <= x
MinOf(S) == CHOOSE x \in S : \A y \in S : x <= y

Range(s) == {s[i] : i \in DOMAIN s}

(***************************************************************************)
(* Periods.                                                                *)
(***************************************************************************)
YearP(y) == [unit |-> "year", y |-> y, m |-> 0]
MonthP(y, m) == [unit |-> "month", y |-> y, m |-> m]
ThisYear(p) == YearP(p.y)

\* Period.get_subperiods: the months of a year, or the period itself.
Subperiods(p, defPeriod) ==
    IF p.unit = "year" /\ defPeriod = "month"
    THEN [m \in Months |-> MonthP(p.y, m)]
    ELSE <<p>>

\* periods.unit_weight: a larger unit weighs more.
UnitWeight(u) == IF u = "year" THEN 3 * 100 ELSE 2 * 100

(***************************************************************************)
(* Arrays: a dtype tag and one integer per instance.                       *)
(***************************************************************************)
Arr(dtype, a) == [dtype |-> dtype, a |-> a]
NoneArr == [dtype |-> "none", a |-> <<>>]
B2I(b) == IF b THEN 1 ELSE 0
\* Entry i of an array as a float: whole numbers become thousandths.
AsFloat(arr, i) == IF arr.dtype = "float" THEN arr.a[i] ELSE arr.a[i] * Unit

(***************************************************************************)
(* The datasets a simulation can be built over (dataset.load(year)): the   *)
(* relation arrays and the input arrays, keyed by variable and period.     *)
(* relVars says whether the dataset's input reform declares the relation   *)
(* columns (P_person_id, ...) as variables of the system.                  *)
(***************************************************************************)
Datasets ==
    { [name |-> "frs_a", relVars |-> TRUE,
       P_household_id |-> <<1, 1, 2>>, P_benunit_id |-> <<1, 2, 3>>,
       is_adult |-> <<1, 1, 1>>,
       base_income |-> <<1000 * Unit, 2000 * Unit, 1234>>,
       flagMonths |-> <<12, 11, 0>>,
       household_weight |-> <<1000, 2000>>,
       next_household_weight |-> <<1100, 2200>>,
       benunit_weight |-> <<1000, 1000, 2000>>,
       person_weight |-> <<1000, 1000, 2000>>,
       hh_value |-> <<10 * Unit, 20 * Unit>>,
       tenure |-> <<0, 1>>],
      [name |-> "frs_b", relVars |-> FALSE,
       P_household_id |-> <<1, 2, 1, 1>>, P_benunit_id |-> <<1, 2, 1, 3>>,
       is_adult |-> <<1, 1, 0, 1>>,
       base_income |-> <<300 * Unit, 0, 125, 40 * Unit>>,
       flagMonths |-> <<12, 12, 1, 11>>,
       household_weight |-> <<1505, 2000>>,
       next_household_weight |-> <<1600, 2000>>,
       benunit_weight |-> <<1505, 2000, 1505>>,
       person_weight |-> <<1505, 2000, 1505, 1505>>,
       hh_value |-> <<12 * Unit, 20 * Unit>>,
       tenure |-> <<1, 1>>],
      [name |-> "frs_c", relVars |-> TRUE,
       P_household_id |-> <<1, 2, 3>>, P_benunit_id |-> <<1, 2, 2>>,
       is_adult |-> <<0, 0, 0>>,
       base_income |-> <<12 * Unit, 0, 6 * Unit>>,
       flagMonths |-> <<0, 12, 12>>,
       household_weight |-> <<1000, 2000, 3000>>,
       next_household_weight |-> <<1000, 2000, 3300>>,
       benunit_weight |-> <<1000, 2000>>,
       person_weight |-> <<1000, 2000, 3000>>,
       hh_value |-> <<10 * Unit, 20 * Unit, 30 * Unit>>,
       tenure |-> <<0, 0, 1>>] }

NPersons(d) == Len(d.P_household_id)
Membership(d, entity) ==
    IF entity = "household" THEN d.P_household_id ELSE d.P_benunit_id
Count(d, entity) ==
    IF entity = "person" THEN NPersons(d)
    ELSE MaxOf(Range(Membership(d, entity)))
Members(d, entity, g) ==
    {p \in 1 .. NPersons(d) : Membership(d, entity)[p] = g}

RelationKeys ==
    <<"P_person_id", "B_benunit_id", "H_household_id", "P_benunit_id",
      "P_household_id", "P_role">>
YearInputs ==
    <<"person_id", "benunit_id", "household_id", "is_adult", "person_weight",
      "benunit_weight", "household_weight", "base_income", "hh_value", "tenure">>

\* data.keys() and data[variable].keys(), in iteration order.
DataKeys(y) ==
    [i \in 1 .. Len(RelationKeys) |-> [var |-> RelationKeys[i], period |-> YearP(y)]]
    \o [i \in 1 .. Len(YearInputs) |-> [var |-> YearInputs[i], period |-> YearP(y)]]
    \o [m \in Months |-> [var |-> "flag", period |-> MonthP(y, m)]]
    \o <<[var |-> "household_weight", period |-> YearP(y + 1)]>>

Iota(n) == [i \in 1 .. n |-> i]

\* np.array(data[variable][period])
DataArray(d, var, period) ==
    CASE var \in {"person_id", "P_person_id"} -> Arr("int", Iota(NPersons(d)))
      [] var \in {"benunit_id", "B_benunit_id"} -> Arr("int", Iota(Count(d, "benunit")))
      [] var \in {"household_id", "H_household_id"} -> Arr("int", Iota(Count(d, "household")))
      [] var = "P_benunit_id" -> Arr("int", d.P_benunit_id)
      [] var = "P_household_id" -> Arr("int", d.P_household_id)
      [] var = "P_role" -> Arr("int", [p \in 1 .. NPersons(d) |-> 0])
      [] var = "is_adult" -> Arr("bool", d.is_adult)
      [] var = "person_weight" -> Arr("float", d.person_weight)
      [] var = "benunit_weight" -> Arr("float", d.benunit_weight)
      [] var = "household_weight" ->
            Arr("float", IF period.y = DefaultYear THEN d.household_weight
                         ELSE d.next_household_weight)
      [] var = "base_income" -> Arr("float", d.base_income)
      [] var = "hh_value" -> Arr("float", d.hh_value)
      [] var = "tenure" -> Arr("enum", d.tenure)
      [] var = "flag" ->
            Arr("bool", [p \in 1 .. NPersons(d) |-> B2I(period.m <= d.flagMonths[p])])

(***************************************************************************)
(* The variable registry of the country system and the variable classes.   *)
(* A formula attribute is a small expression:                              *)
(*   none            no formula (an input, or the default)                 *)
(*   copy of         person(of, period)                                    *)
(*   lin a of        a * person(of, period) + parameters.allowance         *)
(*   hhsum of        household.sum(household.members(of, period))          *)
(*   raise           a formula whose body raises                           *)
(*   add / mul       a perturbed subclass made by deriv                    *)
(***************************************************************************)
VarDef(entity, vt, dp) == [entity |-> entity, value_type |-> vt, definition_period |-> dp]

CountryVariables ==
    [person_id |-> VarDef("person", "int", "year"),
     benunit_id |-> VarDef("benunit", "int", "year"),
     household_id |-> VarDef("household", "int", "year"),
     is_adult |-> VarDef("person", "bool", "year"),
     person_weight |-> VarDef("person", "float", "year"),
     benunit_weight |-> VarDef("benunit", "float", "year"),
     household_weight |-> VarDef("household", "float", "year"),
     base_income |-> VarDef("person", "float", "year"),
     earnings |-> VarDef("person", "float", "year"),
     target |-> VarDef("person", "float", "year"),
     hh_target |-> VarDef("household", "float", "year"),
     hh_value |-> VarDef("household", "float", "year"),
     tenure |-> VarDef("household", "enum", "year"),
     flag |-> VarDef("person", "bool", "month"),
     broken |-> VarDef("person", "float", "year")]

RelationVariables ==
    [P_person_id |-> VarDef("person", "int", "year"),
     B_benunit_id |-> VarDef("benunit", "int", "year"),
     H_household_id |-> VarDef("household", "int", "year"),
     P_benunit_id |-> VarDef("person", "int", "year"),
     P_household_id |-> VarDef("person", "int", "year"),
     P_role |-> VarDef("person", "int", "year")]

NoFormula == [op |-> "none"]
InitClasses ==
    [c \in DOMAIN CountryVariables \cup DOMAIN RelationVariables \cup {"target_flat3"} |->
        CASE c = "earnings" -> [op |-> "copy", of |-> "base_income"]
          [] c = "target" -> [op |-> "lin", a |-> 2, of |-> "earnings"]
          [] c = "target_flat3" -> [op |-> "lin", a |-> 3, of |-> "earnings"]
          [] c = "hh_target" -> [op |-> "hhsum", of |-> "target"]
          [] c = "broken" -> [op |-> "raise"]
          [] OTHER -> NoFormula]

(***************************************************************************)
(* Tax-benefit systems and reforms.  A reform argument is a leaf (a Reform *)
(* class) or a group (a tuple or list of reform arguments).                *)
(***************************************************************************)
Leaf(name) == [leaf |-> name]
Group(items) == [group |-> items]
IsGroup(r) == "group" \in DOMAIN r

WithCls(def, c) ==
    [entity |-> def.entity, value_type |-> def.value_type,
     definition_period |-> def.definition_period, cls |-> c]

\* openfisca_uk.CountryTaxBenefitSystem(): a fresh system object.
CountryTaxBenefitSystem(id) ==
    [id |-> id,
     variables |-> [v \in DOMAIN CountryVariables |-> WithCls(CountryVariables[v], v)],
     parameters |-> [allowance |-> 10 * Unit],
     lineage |-> <<>>]

\* reform(self.system): a Reform is a new system object made from its
\* baseline; its apply() patches the copy.
ApplyLeaf(r, sys, d) ==
    LET copy == [sys EXCEPT !.id = sys.id + 1, !.lineage = Append(sys.lineage, r.leaf)]
    IN CASE r.leaf = "input_reform" ->
              IF d.relVars
              THEN [copy EXCEPT !.variables =
                      [v \in DOMAIN RelationVariables |-> WithCls(RelationVariables[v], v)]
                      @@ sys.variables]
              ELSE copy
         [] r.leaf = "flat3" ->
              [copy EXCEPT !.variables["target"].cls = "target_flat3"]
         [] r.leaf = "raise_allowance" ->
              [copy EXCEPT !.parameters.allowance = 20 * Unit]
         [] r.leaf = "double_allowance" ->
              [copy EXCEPT !.parameters.allowance = 2 * sys.parameters.allowance]
         [] r.leaf = "bonus_ref" ->
              [copy EXCEPT !.variables[r.var].cls = r.cls]

\* A plausible slip: nested groups are skipped instead of being descended into.
RECURSIVE ApplyReformsSkipNested(_, _, _)
ApplyReformsSkipNested(sys, reforms, d) ==
    IF Len(reforms) = 0 THEN sys
    ELSE LET r == Head(reforms)
             s1 == IF IsGroup(r) THEN sys ELSE ApplyLeaf(r, sys, d)
         IN ApplyReformsSkipNested(s1, Tail(reforms), d)

RECURSIVE ApplyReforms(_, _, _)
ApplyReforms(sys, reforms, d) ==
    IF Len(reforms) = 0 THEN sys
    ELSE LET r == Head(reforms)
             s1 == IF IsGroup(r) THEN ApplyReforms(sys, r.group, d)
                   ELSE ApplyLeaf(r, sys, d)
         IN ApplyReforms(s1, Tail(reforms), d)

(***************************************************************************)
(* The evaluation engine behind self.simulation: memoised calculate, and   *)
(* the two period transforms.  A result is                                 *)
(*   [ok, val, err, cache]: the array or the error, and the cache after.   *)
(***************************************************************************)
Key(var, period) == [var |-> var, period |-> period]
Ok(val, cache) == [ok |-> TRUE, val |-> val, err |-> "", cache |-> cache]
Raised(err, cache) == [ok |-> FALSE, val |-> NoneArr, err |-> err, cache |-> cache]

Env(sim, cls, d) == [sys |-> sim.system, inputs |-> sim.inputs, cls |-> cls, d |-> d]

DTypeOf(vt) == vt
DefaultArray(env, var) ==
    Arr(DTypeOf(env.sys.variables[var].value_type),
        [i \in 1 .. Count(env.d, env.sys.variables[var].entity) |-> 0])

\* A plausible slip: the persons are taken to be stored group by group, so
\* that each group sums a contiguous run of the person array.
GroupSumContiguous(d, entity, a) ==
    [g \in 1 .. Count(d, entity) |->
        SumSeq([k \in 1 .. NPersons(d) |->
                    IF /\ k > Cardinality({p \in 1 .. NPersons(d) : Membership(d, entity)[p] < g})
                       /\ k <= Cardinality({p \in 1 .. NPersons(d) : Membership(d, entity)[p] <= g})
                    THEN a[k] ELSE 0])]

\* GroupPopulation.sum: one value per group instance, in the group's order.
GroupSum(d, entity, a) ==
    [g \in 1 .. Count(d, entity) |->
        SumSeq([k \in 1 .. NPersons(d) |->
                    IF Membership(d, entity)[k] = g THEN a[k] ELSE 0])]

RECURSIVE Calculate(_, _, _, _)
RECURSIVE RunFormula(_, _, _, _, _)

\* The perturbed value of a parent formula's result r (deriv's lambdas).
Perturbed(f, r) ==
    IF ~r.ok THEN r
    ELSE Ok(Arr("float", [i \in DOMAIN r.val.a |->
                IF f.op = "add"
                THEN r.val.a[i] + ((f.delta.n * Unit) \div f.delta.d) * f.mask[i]
                ELSE (r.val.a[i] * (f.delta.d + f.delta.n * f.mask[i])) \div f.delta.d]),
            r.cache)

\* a * person(of, period) + parameters.allowance, on the result r of `of`.
Linear(env, f, r) ==
    IF ~r.ok THEN r
    ELSE Ok(Arr("float", [i \in DOMAIN r.val.a |->
                f.a * r.val.a[i] + env.sys.parameters.allowance]), r.cache)

\* household.sum(...), on the result r of `of`.
HouseholdSum(env, r) ==
    IF ~r.ok THEN r
    ELSE Ok(Arr("float", GroupSum(env.d, "household", r.val.a)), r.cache)

\* The body of a variable class's formula attribute f, run for var at period.
RunFormula(env, cache, f, var, period) ==
    CASE f.op \in {"copy", "lin", "hhsum"} ->
            LET Then(r) == CASE f.op = "copy" -> r
                             [] f.op = "lin" -> Linear(env, f, r)
                             [] f.op = "hhsum" -> HouseholdSum(env, r)
            IN Then(Calculate(env, cache, f.of, period))
      [] f.op = "raise" ->
            Raised("FormulaError", cache)
      [] f.op \in {"add", "mul"} ->
            \* lambda *args: existing_var_class.formula(*args) + delta ...: the
            \* parent's formula attribute is looked up when the lambda runs.
            LET Then(pf) ==
                    IF pf.op \in {"add", "mul"} THEN Raised("RecursionError", cache)
                    ELSE IF pf.op = "none" THEN Raised("AttributeError", cache)
                    ELSE Perturbed(f, RunFormula(env, cache, pf, var, period))
            IN Then(env.cls[f.parent])

\* The value a formula returned is put into the cache.
Cached(var, period, r) ==
    IF ~r.ok THEN r ELSE Ok(r.val, (Key(var, period) :> r.val) @@ r.cache)

\* Simulation.calculate(var, period).
Calculate(env, cache, var, period) ==
    IF var \notin DOMAIN env.sys.variables THEN Raised("VariableNotFoundError", cache)
    ELSE IF env.sys.variables[var].definition_period # period.unit
    THEN Raised("ValueError", cache)
    ELSE IF Key(var, period) \in env.inputs
    THEN Ok(DataArray(env.d, var, period), cache)
    ELSE IF Key(var, period) \in DOMAIN cache
    THEN Ok(cache[Key(var, period)], cache)
    ELSE LET Then(f) ==
                 IF f.op = "none" THEN Ok(DefaultArray(env, var), cache)
                 ELSE Cached(var, period, RunFormula(env, cache, f, var, period))
         IN Then(env.cls[env.sys.variables[var].cls])

\* acc + r.val, as 0 + a1 + a2 + ... does it.
Accumulate(acc, val) ==
    Arr(IF val.dtype = "bool" THEN "int" ELSE val.dtype,
        [i \in DOMAIN val.a |-> (IF acc.dtype = "none" THEN 0 ELSE acc.a[i]) + val.a[i]])

\* sum(calculate(var, sub) for sub in subperiods): 0 + a1 + a2 + ...
RECURSIVE SumOver(_, _, _, _, _)
SumOver(env, cache, var, subs, acc) ==
    IF Len(subs) = 0 THEN Ok(acc, cache)
    ELSE LET Then(r) ==
                 IF ~r.ok THEN r
                 ELSE SumOver(env, r.cache, var, Tail(subs), Accumulate(acc, r.val))
         IN Then(Calculate(env, cache, var, Head(subs)))

\* Simulation.calculate_add(var, period).
CalculateAdd(env, cache, var, period) ==
    IF var \notin DOMAIN env.sys.variables THEN Raised("VariableNotFoundError", cache)
    ELSE IF UnitWeight(env.sys.variables[var].definition_period) > UnitWeight(period.unit)
    THEN Raised("ValueError", cache)
    ELSE SumOver(env, cache, var,
                 Subperiods(period, env.sys.variables[var].definition_period), NoneArr)

\* The yearly result r spread over the months of the year.
DivideByMonths(r) ==
    IF ~r.ok THEN r
    ELSE Ok(Arr("float", [i \in DOMAIN r.val.a |->
                AsFloat(r.val, i) \div Cardinality(Months)]), r.cache)

\* Simulation.calculate_divide(var, period).
CalculateDivide(env, cache, var, period) ==
    IF var \notin DOMAIN env.sys.variables THEN Raised("VariableNotFoundError", cache)
    ELSE IF env.sys.variables[var].definition_period # "year"
    THEN Raised("ValueError", cache)
    ELSE LET Then(r) == IF period.unit = "month" THEN DivideByMonths(r) ELSE r
         IN Then(Calculate(env, cache, var, ThisYear(period)))

(***************************************************************************)
(* Microsimulation.map_to: the entity transform.                           *)
(***************************************************************************)
PersonToGroupHows == {"sum", "any", "min", "max", "all", "value_from_first_person"}

\* target_pop.__getattribute__(how)(arr): the group reductions of the engine.
GroupReduce(d, entity, how, arr) ==
    LET n == Count(d, entity)
        vals(g) == {arr.a[p] : p \in Members(d, entity, g)}
        first(g) == MinOf(Members(d, entity, g))
    IN CASE how = "sum" ->
              Arr(IF arr.dtype = "bool" THEN "int" ELSE arr.dtype, GroupSum(d, entity, arr.a))
         [] how = "any" ->
              Arr("bool", [g \in 1 .. n |-> B2I(GroupSum(d, entity, arr.a)[g] > 0)])
         [] how = "all" ->
              Arr("bool", [g \in 1 .. n |-> B2I(\A x \in vals(g) : x # 0)])
         [] how = "max" -> Arr(arr.dtype, [g \in 1 .. n |-> MaxOf(vals(g))])
         [] how = "min" -> Arr(arr.dtype, [g \in 1 .. n |-> MinOf(vals(g))])
         [] how = "value_from_first_person" ->
              Arr(arr.dtype, [g \in 1 .. n |-> arr.a[first(g)]])

\* entity_pop.project(arr): each person gets the value of its group.
Project(d, entity, arr) ==
    Arr(arr.dtype, [p \in 1 .. NPersons(d) |-> arr.a[Membership(d, entity)[p]]])

\* A plausible slip: the group's value is projected whole to each member.
DivideByMembersOmitted(d, entity, arr) ==
    Arr("float", [g \in DOMAIN arr.a |-> AsFloat(arr, g)])

\* arr / entity_pop.nb_persons()
DivideByMembers(d, entity, arr) ==
    Arr("float", [g \in DOMAIN arr.a |->
                    AsFloat(arr, g) \div Cardinality(Members(d, entity, g))])

MapOk(val) == [ok |-> TRUE, val |-> val, err |-> ""]
MapRaised(err) == [ok |-> FALSE, val |-> NoneArr, err |-> err]

RECURSIVE MapTo(_, _, _, _, _)
MapTo(d, arr, entity, target_entity, how) ==
    IF entity = "person" /\ target_entity \in {"benunit", "household"}
    THEN IF how # NoneVal /\ how \notin PersonToGroupHows
         THEN MapRaised("ValueError")
         ELSE MapOk(GroupReduce(d, target_entity, IF how = NoneVal THEN "sum" ELSE how, arr))
    ELSE IF entity \in {"benunit", "household"} /\ target_entity = "person"
    THEN IF how = NoneVal THEN MapOk(Project(d, entity, arr))
         ELSE IF how = "mean" THEN MapOk(Project(d, entity, DivideByMembers(d, entity, arr)))
         ELSE MapOk(NoneArr)          \* no branch returns: the result is None
    ELSE IF entity = target_entity
    THEN MapOk(arr)
    ELSE LET Up(down) == IF ~down.ok THEN down
                         ELSE MapTo(d, down.val, "person", target_entity, "sum")
         IN Up(MapTo(d, arr, entity, "person", "mean"))

(***************************************************************************)
(* Microsimulation.calc.                                                   *)
(***************************************************************************)
NoPeriod == [unit |-> "none", y |-> 0, m |-> 0]

\* arr.round(2) on thousandths: to the nearest hundredth, ties to even.
Round2(x) ==
    LET q == x \div 10
        r == x % 10
    IN IF r < 5 THEN 10 * q
       ELSE IF r > 5 THEN 10 * (q + 1)
       ELSE IF q % 2 = 0 THEN 10 * q ELSE 10 * (q + 1)

Attempt(mode, r) == [mode |-> mode, raised |-> ~r.ok, err |-> r.err]

\* A plausible slip: the divide-transform is tried before the sum-transform.
PeriodAccessDivideFirst(env, cache, var, period) ==
    LET known == var \in DOMAIN env.sys.variables
        direct == IF known THEN Calculate(env, cache, var, period)
                  ELSE Raised("KeyError", cache)
        div == CalculateDivide(env, direct.cache, var, period)
        add == CalculateAdd(env, div.cache, var, period)
    IN IF direct.ok
       THEN [res |-> direct, source |-> "direct", attempts |-> <<Attempt("direct", direct)>>]
       ELSE IF div.ok
       THEN [res |-> div, source |-> "divide",
             attempts |-> <<Attempt("direct", direct), Attempt("divide", div)>>]
       ELSE IF add.ok
       THEN [res |-> add, source |-> "add",
             attempts |-> <<Attempt("direct", direct), Attempt("divide", div),
                            Attempt("add", add)>>]
       ELSE [res |-> Raised(direct.err, add.cache), source |-> "none", errFrom |-> "direct",
             attempts |-> <<Attempt("direct", direct), Attempt("divide", div),
                            Attempt("add", add)>>]

\* A plausible slip: the failure of the last attempt is raised (a bare raise)
\* instead of the saved first one.
PeriodAccessRaiseLast(env, cache, var, period) ==
    LET known == var \in DOMAIN env.sys.variables
        direct == IF known THEN Calculate(env, cache, var, period)
                  ELSE Raised("KeyError", cache)
        add == CalculateAdd(env, direct.cache, var, period)
        boolAdd ==
            IF add.ok /\ env.sys.variables[var].value_type = "bool"
            THEN Ok(Arr("bool", [i \in DOMAIN add.val.a |->
                        B2I(add.val.a[i] >= BoolSumThreshold)]), add.cache)
            ELSE add
        div == CalculateDivide(env, add.cache, var, period)
    IN IF direct.ok
       THEN [res |-> direct, source |-> "direct", attempts |-> <<Attempt("direct", direct)>>]
       ELSE IF add.ok
       THEN [res |-> boolAdd, source |-> "add",
             attempts |-> <<Attempt("direct", direct), Attempt("add", add)>>]
       ELSE IF div.ok
       THEN [res |-> div, source |-> "divide",
             attempts |-> <<Attempt("direct", direct), Attempt("add", add),
                            Attempt("divide", div)>>]
       ELSE [res |-> Raised(div.err, div.cache), source |-> "none", errFrom |-> "divide",
             attempts |-> <<Attempt("direct", direct), Attempt("add", add),
                            Attempt("divide", div)>>]

\* What the nested try blocks of calc end with: the result, the mode it
\* came from, the attempts made and, when all failed, whose error is raised.
Access(res, source, errFrom, attempts) ==
    [res |-> res, source |-> source, errFrom |-> errFrom, attempts |-> attempts]

\* if var_metadata.value_type == bool: arr = arr >= 52
BoolReinterpret(env, var, add) ==
    IF env.sys.variables[var].value_type = "bool"
    THEN Ok(Arr("bool", [i \in DOMAIN add.val.a |->
                B2I(add.val.a[i] >= BoolSumThreshold)]), add.cache)
    ELSE add

\* The innermost try: calculate_divide, and `raise e` when it fails too.
AfterDivide(direct, add, div) ==
    IF div.ok
    THEN Access(div, "divide", "",
                <<Attempt("direct", direct), Attempt("add", add), Attempt("divide", div)>>)
    ELSE Access(Raised(direct.err, div.cache), "none", "direct",
                <<Attempt("direct", direct), Attempt("add", add), Attempt("divide", div)>>)

\* The second try: calculate_add, with the boolean reinterpretation.
AfterAdd(env, var, period, direct, add) ==
    IF add.ok
    THEN Access(BoolReinterpret(env, var, add), "add", "",
                <<Attempt("direct", direct), Attempt("add", add)>>)
    ELSE AfterDivide(direct, add, CalculateDivide(env, add.cache, var, period))

\* The first try: the variable lookup and the direct calculate.
AfterDirect(env, var, period, direct) ==
    IF direct.ok
    THEN Access(direct, "direct", "", <<Attempt("direct", direct)>>)
    ELSE AfterAdd(env, var, period, direct, CalculateAdd(env, direct.cache, var, period))

\* The nested try blocks of calc: direct, then calculate_add (with the
\* boolean reinterpretation), then calculate_divide, then raise e.
PeriodAccess(env, cache, var, period) ==
    AfterDirect(env, var, period,
                IF var \in DOMAIN env.sys.variables
                THEN Calculate(env, cache, var, period)
                ELSE Raised("KeyError", cache))

CalcArgs(var, period, weighted, map_to, how) ==
    [var |-> var, period |-> period, weighted |-> weighted, map_to |-> map_to, how |-> how]

CalcReturn(val, weights, pa) ==
    [kind |-> "return", err |-> "", errFrom |-> "", val |-> val, weights |-> weights,
     source |-> pa.source, attempts |-> pa.attempts, engine |-> pa.res.val,
     cache |-> pa.res.cache]
CalcRaise(err, from, pa) ==
    [kind |-> "raise", err |-> err, errFrom |-> from, val |-> NoneArr, weights |-> NoneArr,
     source |-> pa.source, attempts |-> pa.attempts, engine |-> pa.res.val,
     cache |-> pa.res.cache]

\* arr.round(2) for a float variable, decode_to_str() for an Enum one.
Converted(meta, val) ==
    IF meta.value_type = "float"
    THEN Arr(val.dtype, [i \in DOMAIN val.a |-> Round2(val.a[i])])
    ELSE IF meta.value_type = "enum" THEN Arr("str", val.a)
    ELSE val

\* The end of calc: the unweighted return, or map_to and the weights.
Weighted(sim, d, a, pa, meta, arr) ==
    IF ~a.weighted THEN CalcReturn(arr, NoneArr, pa)
    ELSE IF a.map_to # NoneVal
    THEN LET Then(mapped) ==
                 IF ~mapped.ok THEN CalcRaise(mapped.err, "map_to", pa)
                 ELSE CalcReturn(mapped.val, sim.entity_weights[a.map_to], pa)
         IN Then(MapTo(d, arr, meta.entity, a.map_to, a.how))
    ELSE CalcReturn(arr, sim.entity_weights[meta.entity], pa)

Calc(sim, cls, d, a) ==
    LET Then(pa) ==
            IF ~pa.res.ok THEN CalcRaise(pa.res.err, pa.errFrom, pa)
            ELSE Weighted(sim, d, a, pa, sim.system.variables[a.var],
                          Converted(sim.system.variables[a.var], pa.res.val))
    IN Then(PeriodAccess(Env(sim, cls, d), sim.cache, a.var,
                         IF a.period.unit = "none" THEN YearP(sim.year) ELSE a.period))

(***************************************************************************)
(* Microsimulation.__init__ and load_dataset.                              *)
(***************************************************************************)
\* model.set_input(variable, period, array) succeeds for a variable of the
\* system, at a period of its definition unit, with one value per instance.
SetInputOk(sys, d, k) ==
    /\ k.var \in DOMAIN sys.variables
    /\ sys.variables[k.var].definition_period = k.period.unit
    /\ Len(DataArray(d, k.var, k.period).a) = Count(d, sys.variables[k.var].entity)

RECURSIVE SkippedOf(_, _, _)
SkippedOf(sys, d, keys) ==
    IF Len(keys) = 0 THEN <<>>
    ELSE (IF SetInputOk(sys, d, Head(keys)) THEN <<>> ELSE <<Head(keys).var>>)
         \o SkippedOf(sys, d, Tail(keys))

\* load_dataset: a fresh system, the reforms applied to it, the engine
\* simulation built from the result, then the inputs set one by one.
LoadDataset(d, year, reforms, obj) ==
    LET Loaded(system, keys, skipped) ==
            [year |-> year,
             reforms |-> reforms,
             system |-> system,
             simulation |-> system.id + 1,
             inputs |-> {keys[i] : i \in {j \in DOMAIN keys :
                                              SetInputOk(system, d, keys[j])}},
             cache |-> <<>>,
             skipped |-> skipped,
             warnings |-> IF Len(skipped) > 0
                          THEN <<[text |-> "Incomplete initialisation",
                                  count |-> Len(skipped),
                                  listed |-> <<>>]>>
                          ELSE <<>>,
             entity_weights |-> <<>>,
             bonus_sims |-> <<>>]
        Built(system, keys) == Loaded(system, keys, SkippedOf(system, d, keys))
    IN Built(ApplyReforms(CountryTaxBenefitSystem(obj), reforms, d), DataKeys(year))

WeightEntities == <<"person", "benunit", "household">>
WeightVariable(entity) ==
    CASE entity = "person" -> "person_weight"
      [] entity = "benunit" -> "benunit_weight"
      [] entity = "household" -> "household_weight"

\* self.entity_weights = dict(person=self.calc("person_weight",
\* weighted=False), ...): one calc per entity, in order, each on the cache
\* the previous one left.  Returns [ok, err, sim].
RECURSIVE EntityWeights(_, _, _, _, _)
EntityWeights(sim, cls, d, entities, acc) ==
    IF Len(entities) = 0
    THEN [ok |-> TRUE, err |-> "", sim |-> [sim EXCEPT !.entity_weights = acc]]
    ELSE LET Then(w) ==
                 IF w.kind = "raise" THEN [ok |-> FALSE, err |-> w.err, sim |-> sim]
                 ELSE EntityWeights([sim EXCEPT !.cache = w.cache], cls, d, Tail(entities),
                                    acc @@ (Head(entities) :> w.val))
         IN Then(Calc(sim, cls, d, CalcArgs(WeightVariable(Head(entities)), NoPeriod, FALSE,
                                            NoneVal, NoneVal)))

\* __init__: reforms = (dataset.input_reform, *reforms); load_dataset; the
\* three weight arrays through calc(..., weighted=False); bonus_sims = {}.
\* Returns [ok, err, sim].
NewMicrosimulation(d, cls, userReforms, year, obj) ==
    EntityWeights(LoadDataset(d, year, <<Leaf("input_reform")>> \o userReforms, obj),
                  cls, d, WeightEntities, <<>>)

(***************************************************************************)
(* Microsimulation.deriv.                                                  *)
(***************************************************************************)
Delta(n) == [n |-> n, d |-> 1]
DivDelta(delta, k) == [n |-> delta.n, d |-> delta.d * k]     \* delta / k

Config(wrt, delta, percent, mode, i) ==
    [wrt |-> wrt, delta |-> delta, percent |-> percent, mode |-> mode, i |-> i]

DerivArgs(target, wrt, delta, percent, group_limit) ==
    [target |-> target, wrt |-> wrt, delta |-> delta, percent |-> percent,
     group_limit |-> group_limit]

\* The perturbed subclass type(wrt, (existing_var_class,), {}) with its own
\* formula attribute; the parent class is not touched.
AlteredVariable(op, parent, delta, mask) ==
    [op |-> op, parent |-> parent, delta |-> delta, mask |-> mask]

BonusRef(wrt, altered) == [leaf |-> "bonus_ref", var |-> wrt, cls |-> altered]

\* Microsimulation(self.reforms[1:] + (bonus_ref,), mode=self.mode,
\*                 year=self.year, input_year=self.input_year):
\* the class sets no mode or input_year attribute and __init__ takes no such
\* keyword, so evaluating the call raises before a sibling exists.
SiblingConstruction(sim, sibReforms) ==
    [ok |-> FALSE, err |-> "AttributeError", reforms |-> sibReforms]

\* groupby(group id).cumcount(): the position of each person among the
\* persons of its group, in person order, from 0.
CumCount(groupOf) ==
    [p \in DOMAIN groupOf |->
        Cardinality({q \in DOMAIN groupOf : q < p /\ groupOf[q] = groupOf[p]})]

\* A plausible slip: every adult is perturbed, whatever its index in the group.
PerturbationMaskAllAdults(index_in_group, adult, i) ==
    [p \in DOMAIN adult |-> adult[p]]

\* (index_in_group == i) * adult
PerturbationMask(index_in_group, adult, i) ==
    [p \in DOMAIN adult |-> B2I(index_in_group[p] = i) * adult[p]]

\* A plausible slip: the larger of the two instead of the smaller.
MaxGroupSizeLarger(index_in_group, adult, group_limit) ==
    LET m == MaxOf({index_in_group[p] : p \in {q \in DOMAIN adult : adult[q] = 1}}) + 1
    IN IF m > group_limit THEN m ELSE group_limit

\* min(max(index_in_group[adult]) + 1, group_limit)
MaxGroupSize(index_in_group, adult, group_limit) ==
    LET m == MaxOf({index_in_group[p] : p \in {q \in DOMAIN adult : adult[q] = 1}}) + 1
    IN IF m < group_limit THEN m ELSE group_limit

NaNs(n) == [defined |-> [p \in 1 .. n |-> 0], a |-> [p \in 1 .. n |-> 0]]

DerivEnd(kind, err, mode, val, weights, attempts, altered, sibs, looked, cache, loc) ==
    [kind |-> kind, err |-> err, mode |-> mode, val |-> val, weights |-> weights,
     attempts |-> attempts, altered |-> altered, sibReforms |-> sibs,
     looked |-> looked, cache |-> cache, locals |-> loc]

NoLocals == [index_in_group |-> <<>>, adult |-> <<>>, max_group_size |-> 0, delta |-> Delta(0)]

\* target_increase / bonus_increase, element by element; 0 / 0 and x / 0 are
\* not numbers.
Gradient(tb, ts, wb, ws) ==
    [defined |-> [p \in DOMAIN wb |-> B2I(ws[p] # wb[p])],
     a |-> [p \in DOMAIN wb |->
              IF ws[p] # wb[p] THEN ((ts[p] - tb[p]) * Unit) \div (ws[p] - wb[p]) ELSE 0]]

\* The perturbed subclass deriv makes of wrt's class for member index i.
Altered(sim, a, delta, mask) ==
    AlteredVariable(IF a.percent THEN "mul" ELSE "add", sim.system.variables[a.wrt].cls,
                    IF a.percent THEN DivDelta(delta, 100) ELSE delta, mask)

\* self.reforms[1:] + (bonus_ref,)
SiblingReforms(sim, a, altered) == Tail(sim.reforms) \o <<BonusRef(a.wrt, altered)>>

\* The branch for target and wrt on the same entity.
DerivSameEntity(sim, cls, d, a) ==
    LET config == Config(a.wrt, a.delta, a.percent, "same-entity", 0)
        n == Count(d, sim.system.variables[a.wrt].entity)
        Raise(altered) ==
            DerivEnd("raise",
                     SiblingConstruction(sim, SiblingReforms(sim, a, altered)).err,
                     "same-entity", NaNs(n), NoneArr, <<config>>, <<altered>>,
                     <<SiblingReforms(sim, a, altered)>>, <<config>>, sim.cache, NoLocals)
        Then(ws, wb, ts, tb) ==
            DerivEnd("return", "", "same-entity",
                     Gradient(tb.val.a, ts.val.a, wb.val.a, ws.val.a), NoneArr, <<>>,
                     <<>>, <<>>, <<config>>, tb.cache, NoLocals)
        With(sib, wrt) ==
            Then(Calc(sib, cls, d, wrt), Calc(sim, cls, d, wrt),
                 Calc(sib, cls, d, [wrt EXCEPT !.var = a.target]),
                 Calc(sim, cls, d, [wrt EXCEPT !.var = a.target]))
    IN IF config \notin DOMAIN sim.bonus_sims
       THEN Raise(Altered(sim, a, a.delta, [p \in 1 .. n |-> 1]))
       ELSE With(sim.bonus_sims[config], CalcArgs(a.wrt, NoPeriod, TRUE, NoneVal, NoneVal))

\* derivative[bonus_increase > 0] = result[bonus_increase > 0]
Updated(derivative, g, ws, wb) ==
    [defined |-> [p \in DOMAIN wb |-> IF ws[p] > wb[p] THEN g.defined[p]
                                      ELSE derivative.defined[p]],
     a |-> [p \in DOMAIN wb |-> IF ws[p] > wb[p] THEN g.a[p] ELSE derivative.a[p]]]

\* The loop over member indexes of the group branch, from index i on.
RECURSIVE DerivGroupLoop(_, _, _, _, _, _, _, _, _)
DerivGroupLoop(sim, cls, d, a, loc, i, delta, derivative, looked) ==
    IF i >= loc.max_group_size
    THEN DerivEnd("return", "", "group-entity", derivative, sim.entity_weights["person"],
                  <<>>, <<>>, <<>>, looked, sim.cache, [loc EXCEPT !.delta = delta])
    ELSE
    LET config == Config(a.wrt, delta, a.percent, "group-entity", i)
        Raise(altered) ==
            DerivEnd("raise",
                     SiblingConstruction(sim, SiblingReforms(sim, a, altered)).err,
                     "group-entity", derivative, NoneArr, <<config>>, <<altered>>,
                     <<SiblingReforms(sim, a, altered)>>, Append(looked, config),
                     sim.cache,
                     \* delta /= 100 has rebound the local delta
                     [loc EXCEPT !.delta = IF a.percent THEN DivDelta(delta, 100) ELSE delta])
        Then(ws, wb, ts, tb) ==
            DerivGroupLoop([sim EXCEPT !.cache = tb.cache], cls, d, a, loc, i + 1, delta,
                           Updated(derivative,
                                   Gradient(tb.val.a, ts.val.a, wb.val.a, ws.val.a),
                                   ws.val.a, wb.val.a),
                           Append(looked, config))
        With(sib, wrt, toP) ==
            Then(Calc(sib, cls, d, wrt), Calc(sim, cls, d, wrt),
                 Calc(sib, cls, d, toP), Calc(sim, cls, d, toP))
    IN IF config \notin DOMAIN sim.bonus_sims
       THEN Raise(Altered(sim, a, delta,
                          PerturbationMask(loc.index_in_group, loc.adult, i)))
       ELSE With(sim.bonus_sims[config],
                 CalcArgs(a.wrt, NoPeriod, TRUE, NoneVal, NoneVal),
                 CalcArgs(a.target, NoPeriod, TRUE, "person", NoneVal))

\* The branch for a group-level target and a person-level wrt.
DerivGroup(sim, cls, d, a) ==
    LET Fail(err, c) == DerivEnd("raise", err, "group-entity", NaNs(0), NoneArr, <<>>, <<>>,
                                 <<>>, <<>>, c, NoLocals)
        Loop(s3, adult, index_in_group) ==
            IF \A p \in DOMAIN adult : adult[p] = 0
            THEN Fail("ValueError", s3.cache)          \* max() of an empty sequence
            ELSE DerivGroupLoop(s3, cls, d, a,
                     [index_in_group |-> index_in_group, adult |-> adult,
                      max_group_size |-> MaxGroupSize(index_in_group, adult, a.group_limit),
                      delta |-> a.delta],
                     0, a.delta, NaNs(Len(adult)), <<>>)
        AfterGroupId(s2, adultC, gidC) ==
            IF gidC.kind = "raise" THEN Fail(gidC.err, gidC.cache)
            ELSE Loop([s2 EXCEPT !.cache = gidC.cache], adultC.val.a, CumCount(gidC.val.a))
        GroupId(s2, adultC) ==
            AfterGroupId(s2, adultC,
                Calc(s2, cls, d,
                     CalcArgs(IF sim.system.variables[a.target].entity = "household"
                              THEN "household_id" ELSE "benunit_id",
                              NoPeriod, TRUE, "person", NoneVal)))
        AfterPersonId(s1, adultC, pidC) ==
            IF pidC.kind = "raise" THEN Fail(pidC.err, pidC.cache)
            ELSE GroupId([s1 EXCEPT !.cache = pidC.cache], adultC)
        PersonId(s1, adultC) ==
            AfterPersonId(s1, adultC,
                Calc(s1, cls, d, CalcArgs("person_id", NoPeriod, TRUE, NoneVal, NoneVal)))
        AfterAdult(adultC) ==
            IF adultC.kind = "raise" THEN Fail(adultC.err, adultC.cache)
            ELSE PersonId([sim EXCEPT !.cache = adultC.cache], adultC)
    IN AfterAdult(Calc(sim, cls, d, CalcArgs("is_adult", NoPeriod, TRUE, NoneVal, NoneVal)))

Deriv(sim, cls, d, a) ==
    LET Branch(target_entity, wrt_entity) ==
            IF target_entity = wrt_entity THEN DerivSameEntity(sim, cls, d, a)
            ELSE IF target_entity \in {"benunit", "household"} /\ wrt_entity = "person"
            THEN DerivGroup(sim, cls, d, a)
            ELSE DerivEnd("raise", "ValueError", "none", NaNs(0), NoneArr, <<>>, <<>>, <<>>,
                          <<>>, sim.cache, NoLocals)
    IN Branch(sim.system.variables[a.target].entity, sim.system.variables[a.wrt].entity)

(***************************************************************************)
(* The calls a user of the facade makes.                                   *)
(***************************************************************************)
UserReforms ==
    { <<>>,
      <<Leaf("raise_allowance"), Leaf("double_allowance")>>,
      <<Group(<<Leaf("double_allowance"), Group(<<Leaf("raise_allowance")>>)>>),
        Leaf("flat3")>> }

Entities == {"person", "benunit", "household"}
Periods == {NoPeriod, YearP(DefaultYear), MonthP(DefaultYear, 1)}
Hows == {NoneVal, "sum", "any", "max", "mean", "count", "value_from_first_person"}

CalcRequests ==
    { CalcArgs(v, p, TRUE, NoneVal, NoneVal) :
        v \in {"earnings", "target", "hh_target", "hh_value", "flag", "broken",
               "tenure", "is_adult", "base_income", "nope"},
        p \in Periods }
    \cup
    { CalcArgs(v, NoPeriod, FALSE, e, NoneVal) :
        v \in {"earnings", "hh_value"}, e \in {NoneVal, "person", "household"} }
    \cup
    { CalcArgs(v, NoPeriod, TRUE, e, h) :
        v \in {"earnings", "hh_value"}, e \in Entities, h \in Hows }
    \cup
    { CalcArgs("is_adult", NoPeriod, TRUE, "household", h) : h \in {"any", "all"} }
    \cup
    { CalcArgs("benunit_weight", NoPeriod, TRUE, "household", h) : h \in {NoneVal, "max"} }
    \cup
    { CalcArgs(v, YearP(DefaultYear + 1), TRUE, NoneVal, NoneVal) :
        v \in {"hh_value", "household_weight"} }

DerivRequests ==
    { DerivArgs(t, x, Delta(DefaultDelta), pc, gl) :
        t \in {"target", "hh_target", "benunit_weight"}, x \in {"earnings", "hh_value"},
        pc \in BOOLEAN, gl \in 0 .. MaxGroupLimit }

Idle == [op |-> "none"]
ToolsIdle == [pc |-> "idle"]
ReliefIdle == [status |-> "idle"]
BenefitIdle == [op |-> "none"]

\* A plausible slip: the formula is assigned to the existing class itself.
ClassesAfterAlteringParent(cls, altered) ==
    IF Len(altered) = 0 THEN cls
    ELSE [cls EXCEPT ![altered[1].parent] = altered[1]]

\* type(wrt, (existing_var_class,), {}) and the assignment of its formula:
\* the registered classes after deriv has made the perturbed subclass.
ClassesAfterAltering(cls, altered) == cls

Init ==
    /\ dataset \in Datasets
    /\ classes = InitClasses
    /\ nextObj = 1
    /\ sims = <<>>
    /\ outcome = Idle
    /\ tools = ToolsIdle
    /\ relief = ReliefIdle
    /\ benefit = BenefitIdle

\* sim = Microsimulation(*reforms, year=..., dataset=...)
Construct ==
    /\ outcome.op = "none"
    /\ Len(sims) < MaxSims
    /\ \E userReforms \in UserReforms, withDataset \in BOOLEAN :
         IF ~withDataset
         THEN /\ outcome' = [op |-> "init", kind |-> "raise", err |-> "AttributeError",
                             sim |-> 0]
              /\ UNCHANGED <<sims, nextObj>>
         ELSE LET Made(made) ==
                      IF made.ok
                      THEN /\ sims' = Append(sims, made.sim)
                           /\ nextObj' = made.sim.simulation + 1
                           /\ outcome' = [op |-> "init", kind |-> "return", err |-> "",
                                          sim |-> Len(sims) + 1]
                      ELSE /\ outcome' = [op |-> "init", kind |-> "raise",
                                          err |-> made.err, sim |-> 0]
                           /\ nextObj' = made.sim.simulation + 1
                           /\ UNCHANGED sims
              IN Made(NewMicrosimulation(dataset, classes, userReforms, DefaultYear,
                                         nextObj))
    /\ UNCHANGED <<dataset, classes, tools, relief, benefit>>

\* sims[s].calc(var, period, weighted, map_to, how)
CalcCall ==
    /\ outcome.op = "none"
    /\ \E s \in DOMAIN sims, a \in CalcRequests :
         LET Ended(r) ==
                 /\ sims' = [sims EXCEPT ![s].cache = r.cache]
                 /\ outcome' = [op |-> "calc", sim |-> s, args |-> a, kind |-> r.kind,
                                err |-> r.err, errFrom |-> r.errFrom, val |-> r.val,
                                weights |-> r.weights,
                                source |-> r.source, attempts |-> r.attempts,
                                engine |-> r.engine]
         IN Ended(Calc(sims[s], classes, dataset, a))
    /\ UNCHANGED <<dataset, classes, nextObj, tools, relief, benefit>>

DerivOutcome(s, a, r, repeat) ==
    [op |-> "deriv", sim |-> s, args |-> a, kind |-> r.kind, err |-> r.err,
     mode |-> r.mode, val |-> r.val, weights |-> r.weights, attempts |-> r.attempts,
     altered |-> r.altered, sibReforms |-> r.sibReforms, looked |-> r.looked,
     locals |-> r.locals, repeat |-> repeat]

\* sims[s].deriv(target, wrt, delta, percent, group_limit)
DerivCall ==
    /\ outcome.op = "none"
    /\ \E s \in DOMAIN sims, a \in DerivRequests :
         LET Ended(r) ==
                 /\ sims' = [sims EXCEPT ![s].cache = r.cache]
                 /\ classes' = ClassesAfterAltering(classes, r.altered)
                 /\ outcome' = DerivOutcome(s, a, r, FALSE)
         IN Ended(Deriv(sims[s], classes, dataset, a))
    /\ UNCHANGED <<dataset, nextObj, tools, relief, benefit>>

\* The same deriv call made again on the same simulation, right after the
\* first one has ended.
DerivAgain ==
    /\ outcome.op = "deriv"
    /\ ~outcome.repeat
    /\ LET Ended(r) ==
               /\ sims' = [sims EXCEPT ![outcome.sim].cache = r.cache]
               /\ classes' = ClassesAfterAltering(classes, r.altered)
               /\ outcome' = DerivOutcome(outcome.sim, outcome.args, r, TRUE)
       IN Ended(Deriv(sims[outcome.sim], classes, dataset, outcome.args))
    /\ UNCHANGED <<dataset, nextObj, tools, relief, benefit>>

\* The caller is done with the outcome of the last call.
Forget ==
    /\ outcome.op # "none"
    /\ outcome' = Idle
    /\ UNCHANGED <<dataset, classes, nextObj, sims, tools, relief, benefit>>

Next == Construct \/ CalcCall \/ DerivCall \/ DerivAgain \/ Forget

Spec == Init /\ [][Next]_vars

(***************************************************************************)
(* Claims about calc's period access.                                      *)
(***************************************************************************)
AccessOrder == <<"direct", "add", "divide">>

\* C1: calc tries direct calculate, then calculate_add, then
\* calculate_divide; a later mode is attempted only if every earlier one
\* raised, and the array comes from the first mode that did not raise.
C1_AccessOrder ==
    outcome.op = "calc" =>
        LET at == outcome.attempts
            n == Len(at)
        IN /\ n \in 1 .. 3
           /\ \A i \in 1 .. n : at[i].mode = AccessOrder[i]
           /\ \A i \in 1 .. n : i < n => at[i].raised
           /\ IF at[n].raised
              THEN n = 3 /\ outcome.kind = "raise" /\ outcome.source = "none"
              ELSE outcome.source = at[n].mode
           /\ outcome.kind = "return" => ~at[n].raised

\* A calc that returned the divide-transform's array after the direct and the
\* sum attempt had both raised.
C1_Witness ==
    /\ outcome.op = "calc"
    /\ outcome.kind = "return"
    /\ outcome.source = "divide"
    /\ Len(outcome.attempts) = 3
    /\ outcome.attempts[1].raised /\ outcome.attempts[2].raised

AllThreeFailed ==
    /\ outcome.op = "calc"
    /\ Len(outcome.attempts) = 3
    /\ \A i \in 1 .. 3 : outcome.attempts[i].raised

\* C2 as stated: when direct, sum and divide all fail, the error reaching the
\* caller is the failure of the final (divide) attempt.
C2_FinalFailureSurfaced ==
    AllThreeFailed =>
        /\ outcome.kind = "raise"
        /\ outcome.errFrom = "divide"
        /\ outcome.err = outcome.attempts[3].err

\* C2 amended: when direct, sum and divide all fail, the error reaching the
\* caller is the failure of the first (direct) attempt, saved as e and
\* re-raised.
C2_FirstFailureSurfaced ==
    AllThreeFailed =>
        /\ outcome.kind = "raise"
        /\ outcome.errFrom = "direct"
        /\ outcome.err = outcome.attempts[1].err

\* All three attempts failed and the last failure differs from the first.
C2_Witness ==
    /\ AllThreeFailed
    /\ outcome.attempts[1].err # outcome.attempts[3].err

\* The number of subperiods in which the boolean input flag is true for
\* person p, and the number of subperiods summed.
TrueSubperiods(var, period, p) ==
    LET subs == Subperiods(period, "month")
    IN Cardinality({i \in DOMAIN subs : DataArray(dataset, var, subs[i]).a[p] = 1})

\* C3: a boolean resolved through the sum-transform over n subperiods is
\* true for a unit exactly when the indicator was true in all n subperiods.
C3_BoolSumAllSubperiods ==
    ( /\ outcome.op = "calc"
      /\ outcome.kind = "return"
      /\ outcome.source = "add"
      /\ outcome.args.var = "flag"
      /\ outcome.args.map_to = NoneVal ) =>
        LET period == IF outcome.args.period.unit = "none"
                      THEN YearP(sims[outcome.sim].year) ELSE outcome.args.period
            n == Len(Subperiods(period, "month"))
        IN \A p \in DOMAIN outcome.val.a :
              (outcome.val.a[p] = 1) <=> (TrueSubperiods("flag", period, p) = n)

(***************************************************************************)
(* Claims about reforms and the independence of simulations.               *)
(***************************************************************************)
Probes ==
    { CalcArgs(v, NoPeriod, TRUE, NoneVal, NoneVal) : v \in {"earnings", "hh_target"} }

\* What calc returns to a caller for each probe request on a simulation.
Results(sim, cls) ==
    [q \in Probes |->
        LET r == Calc(sim, cls, dataset, q)
        IN [kind |-> r.kind, err |-> r.err, val |-> r.val, weights |-> r.weights]]

OwnObjects ==
    \A s, t \in DOMAIN sims :
        s # t => /\ sims[s].system.id # sims[t].system.id
                 /\ sims[s].simulation # sims[t].simulation

ResultsKept ==
    \A s \in DOMAIN sims : Results(sims'[s], classes') = Results(sims[s], classes)

\* C4: every Microsimulation has its own system and its own engine
\* simulation, and no step (building another simulation, querying it, or a
\* deriv call making its perturbed variable class) changes what calc returns
\* on a simulation that is already built.
C4_SimulationsIndependent == [][ResultsKept]_vars /\ []OwnObjects

\* Two simulations under different reforms, one queried before, the other
\* having just made a perturbed variable class in deriv.
C4_Witness ==
    /\ Len(sims) = 2
    /\ sims[1].reforms # sims[2].reforms
    /\ outcome.op = "deriv"
    /\ Len(outcome.altered) = 1
    /\ \E s \in DOMAIN sims : s # outcome.sim /\ DOMAIN sims[s].cache # {}

\* The leaves of a reform argument list, depth first, left to right.
RECURSIVE FlattenReforms(_)
FlattenReforms(reforms) ==
    IF Len(reforms) = 0 THEN <<>>
    ELSE (IF IsGroup(Head(reforms)) THEN FlattenReforms(Head(reforms).group)
          ELSE <<Head(reforms)>>) \o FlattenReforms(Tail(reforms))

\* The leaves applied one after the other, each to the system made by the
\* one before.
RECURSIVE ApplyInOrder(_, _, _)
ApplyInOrder(sys, leaves, d) ==
    IF Len(leaves) = 0 THEN sys
    ELSE ApplyInOrder(ApplyLeaf(Head(leaves), sys, d), Tail(leaves), d)

\* C5: a simulation's system is the country system with the leaves of its
\* reform arguments applied left to right, depth first; the dataset's input
\* reform is the first leaf; and the reform list deriv hands to a sibling
\* has the user's leaves in their order followed by the perturbation reform.
C5_ReformsFlattenInOrder ==
    /\ \A s \in DOMAIN sims :
          LET sim == sims[s]
              leaves == FlattenReforms(sim.reforms)
              base == CountryTaxBenefitSystem(sim.system.id - Len(leaves))
          IN /\ sim.system = ApplyInOrder(base, leaves, dataset)
             /\ sim.system.lineage = [i \in DOMAIN leaves |-> leaves[i].leaf]
             /\ leaves[1] = Leaf("input_reform")
    /\ (outcome.op = "deriv" /\ Len(outcome.sibReforms) = 1) =>
          LET leaves == FlattenReforms(outcome.sibReforms[1])
              user == FlattenReforms(Tail(sims[outcome.sim].reforms))
          IN /\ Len(leaves) = Len(user) + 1
             /\ \A i \in DOMAIN user : leaves[i] = user[i]
             /\ leaves[Len(leaves)].leaf = "bonus_ref"

\* A simulation built from a nested reform group, whose deriv call has made
\* the reform list for a sibling.
C5_Witness ==
    /\ outcome.op = "deriv"
    /\ Len(outcome.sibReforms) = 1
    /\ \E i \in DOMAIN sims[outcome.sim].reforms : IsGroup(sims[outcome.sim].reforms[i])
    /\ Len(sims[outcome.sim].system.lineage) = 4

(***************************************************************************)
(* Claims about deriv.                                                     *)
(***************************************************************************)
\* The simulation of the last call computes target = 2 * earnings + 10.
LinearTarget(sim) ==
    /\ classes[sim.system.variables["target"].cls] = [op |-> "lin", a |-> 2, of |-> "earnings"]
    /\ sim.system.parameters.allowance = 10 * Unit

\* C7: for target = 2 * wrt + 10 on the same entity, deriv(target, wrt,
\* delta=100) completes and returns 2.0 for every unit, for percent False
\* and True.
C7_DerivLinearIsTwo ==
    ( /\ outcome.op = "deriv"
      /\ outcome.args.target = "target"
      /\ outcome.args.wrt = "earnings"
      /\ outcome.args.delta = Delta(DefaultDelta)
      /\ LinearTarget(sims[outcome.sim]) ) =>
        /\ outcome.kind = "return"
        /\ \A p \in DOMAIN outcome.val.a :
              outcome.val.defined[p] = 1 /\ outcome.val.a[p] = 2 * Unit

\* C8: a deriv call that repeats the wrt, delta and percent of a deriv call
\* that has already run on the simulation builds no sibling simulation.
C8_SiblingsReused ==
    (outcome.op = "deriv" /\ outcome.repeat) => Len(outcome.attempts) = 0

GroupsOf(entity) == 1 .. Count(dataset, entity)

\* C9: in the group branch of deriv, every perturbed variable made for a
\* member index perturbs at most one member of each group instance, no
\* member index is shared by two persons of a group, and non-adults are
\* never perturbed.
C9_OneMemberPerGroup ==
    (outcome.op = "deriv" /\ outcome.mode = "group-entity" /\ Len(outcome.altered) > 0) =>
        LET entity == sims[outcome.sim].system.variables[outcome.args.target].entity
            idx == outcome.locals.index_in_group
            adult == outcome.locals.adult
        IN /\ \A k \in DOMAIN outcome.altered, g \in GroupsOf(entity) :
                Cardinality({p \in Members(dataset, entity, g) :
                                outcome.altered[k].mask[p] # 0}) <= 1
           /\ \A k \in DOMAIN outcome.altered, p \in DOMAIN adult :
                adult[p] = 0 => outcome.altered[k].mask[p] = 0
           /\ \A g \in GroupsOf(entity) :
                \A p, q \in Members(dataset, entity, g) : idx[p] = idx[q] => p = q

\* A group-branch deriv call that made a perturbed variable over a
\* population in which some group has two adults.
C9_Witness ==
    /\ outcome.op = "deriv"
    /\ outcome.mode = "group-entity"
    /\ Len(outcome.altered) = 1
    /\ \E p \in DOMAIN outcome.altered[1].mask : outcome.altered[1].mask[p] # 0
    /\ LET entity == sims[outcome.sim].system.variables[outcome.args.target].entity
       IN \E g \in GroupsOf(entity) :
             Cardinality({p \in Members(dataset, entity, g) :
                             outcome.locals.adult[p] = 1}) >= 2

FirstAdjustYear == 2019

ToolsArgs ==
    [reform : UserReforms,
     dataset : {"frs", "frs_enhanced"},
     year : {FirstAdjustYear - 1, FirstAdjustYear},
     yearAvailable : BOOLEAN,
     download : BOOLEAN,
     adjust_weights : BOOLEAN,
     average_parameters : BOOLEAN,
     add_baseline_values : BOOLEAN,
     synthHasYear : BOOLEAN,
     weightFile : BOOLEAN,
     baselineFile : BOOLEAN,
     fileYears : 1 .. MaxFileYears]

Event(ev, what, params) == [ev |-> ev, what |-> what, params |-> params]

\* The lines before super().__init__: the dataset and year defaults and the
\* check that the dataset holds the year, with its interactive way out.
ToolsBegin ==
    /\ tools.pc = "idle"
    /\ \E a \in ToolsArgs :
         tools' = [pc |-> "super", args |-> a,
                   dataset |-> IF a.yearAvailable \/ a.download THEN a.dataset
                               ELSE "synth_frs",
                   params |-> "prepared", i |-> 0,
                   log |-> IF a.yearAvailable \/ (~a.download /\ a.synthHasYear)
                           THEN <<>>
                           ELSE <<Event("download", a.year, "none")>>]
    /\ UNCHANGED <<dataset, classes, nextObj, sims, outcome, relief, benefit>>

\* super().__init__(reform=reform, dataset=dataset, year=year): after it
\* self.simulation exists, built over the reformed system.
ToolsSuper ==
    /\ tools.pc = "super"
    /\ tools' = [tools EXCEPT
                   !.pc = IF /\ tools.dataset = "frs_enhanced"
                             /\ tools.args.adjust_weights
                             /\ tools.args.year >= FirstAdjustYear
                          THEN IF tools.args.weightFile THEN "weights" ELSE "raised"
                          ELSE "baseline",
                   !.log = tools.log \o <<Event("reform", "reform", tools.params),
                                           Event("build", "simulation", tools.params)>>]
    /\ UNCHANGED <<dataset, classes, nextObj, sims, outcome, relief, benefit>>

\* One pass of the loop over the years of the weight file: household_weight
\* is set, then person_weight and benunit_weight are set from calc.
ToolsAdjustWeights ==
    /\ tools.pc = "weights"
    /\ tools' = [tools EXCEPT
                   !.i = tools.i + 1,
                   !.pc = IF tools.i + 1 >= tools.args.fileYears THEN "baseline"
                          ELSE "weights",
                   !.log = tools.log \o
                       <<Event("set_input", "household_weight", tools.params),
                         Event("calc", "household_weight", tools.params),
                         Event("set_input", "person_weight", tools.params),
                         Event("calc", "household_weight", tools.params),
                         Event("set_input", "benunit_weight", tools.params)>>]
    /\ UNCHANGED <<dataset, classes, nextObj, sims, outcome, relief, benefit>>

\* if add_baseline_values: the baseline file is generated when missing, and
\* the variables it holds are set as inputs, year by year.
ToolsBaseline ==
    /\ tools.pc = "baseline"
    /\ tools' = [tools EXCEPT
                   !.pc = "average",
                   !.log = IF tools.args.add_baseline_values
                           THEN tools.log
                                \o (IF tools.args.baselineFile THEN <<>>
                                    ELSE <<Event("generate", "baseline", "none")>>)
                                \o [k \in 1 .. tools.args.fileYears |->
                                       Event("set_input", "baseline", tools.params)]
                           ELSE tools.log]
    /\ UNCHANGED <<dataset, classes, nextObj, sims, outcome, relief, benefit>>

\* if average_parameters: the system's parameters are replaced by their
\* averaged version; then the memory configuration is set.
ToolsAverage ==
    /\ tools.pc = "average"
    /\ tools' = [tools EXCEPT
                   !.pc = "done",
                   !.params = IF tools.args.average_parameters THEN "averaged"
                              ELSE tools.params,
                   !.log = IF tools.args.average_parameters
                           THEN Append(tools.log,
                                       Event("rewrite", "parameters", "averaged"))
                           ELSE tools.log]
    /\ UNCHANGED <<dataset, classes, nextObj, sims, outcome, relief, benefit>>

\* The caller drops the object, or the exception has been handled.
ToolsDrop ==
    /\ tools.pc \in {"done", "raised"}
    /\ tools' = ToolsIdle
    /\ UNCHANGED <<dataset, classes, nextObj, sims, outcome, relief, benefit>>

ToolsNext ==
    ToolsBegin \/ ToolsSuper \/ ToolsAdjustWeights \/ ToolsBaseline \/ ToolsAverage
    \/ ToolsDrop

ToolsSpec == Init /\ [][ToolsNext]_vars

\* C6: in a finished construction nothing was built, set as input or
\* calculated under parameters other than the final ones: every reform and
\* parameter rewrite comes before the engine simulation is built and before
\* the first calc.
C6_NoValuePredatesRewrite ==
    tools.pc = "done" =>
        /\ \A k \in DOMAIN tools.log :
              tools.log[k].ev \in {"build", "set_input", "calc"} =>
                  tools.log[k].params = tools.params
        /\ \A j, k \in DOMAIN tools.log :
              (tools.log[j].ev \in {"reform", "rewrite"} /\ tools.log[k].ev \in {"build", "calc"})
                  => j < k

(***************************************************************************)
(* Claims about what calc hands back: entity transform, precision, weights.*)
(***************************************************************************)
\* C11: a calc given map_to returns one value per instance of the target
\* entity, for weighted=True and weighted=False alike; without map_to and
\* with weighted=False it returns one value per instance of the variable's
\* own entity.  (The default how is taken, so that no value is lost to an
\* operator the transform does not know.)
C11_MapToAlwaysTransforms ==
    (outcome.op = "calc" /\ outcome.kind = "return" /\ outcome.args.how = NoneVal) =>
        IF outcome.args.map_to # NoneVal
        THEN Len(outcome.val.a) = Count(dataset, outcome.args.map_to)
        ELSE ~outcome.args.weighted =>
                Len(outcome.val.a) =
                    Count(dataset,
                          sims[outcome.sim].system.variables[outcome.args.var].entity)


\* The group-reduction operators the entity transform is specified to know.
SpecOperators == {"sum", "any", "all", "max", "min", "count", "value_from_first_person"}

\* C12: an entity transform with a how outside the operator set ends in the
\* invalid-aggregation error, whatever the pair of entities, and never in a
\* returned value; and every operator of the set is accepted for a
\* person-to-group transform.
C12_UnknownHowAlwaysRaises ==
    ( /\ outcome.op = "calc"
      /\ outcome.source # "none"
      /\ outcome.args.weighted
      /\ outcome.args.map_to # NoneVal ) =>
        LET entity == sims[outcome.sim].system.variables[outcome.args.var].entity
            how == outcome.args.how
        IN /\ (how # NoneVal /\ how \notin SpecOperators) =>
                (outcome.kind = "raise" /\ outcome.errFrom = "map_to")
           /\ ( /\ entity = "person"
                /\ outcome.args.map_to \in {"benunit", "household"}
                /\ how \in SpecOperators ) => outcome.kind = "return"


\* C13: for a float variable calc hands the engine's array on exactly as the
\* engine computed it, neither rounded nor truncated.
C13_FullPrecisionKept ==
    ( /\ outcome.op = "calc"
      /\ outcome.kind = "return"
      /\ outcome.args.map_to = NoneVal
      /\ sims[outcome.sim].system.variables[outcome.args.var].value_type = "float" ) =>
        outcome.val = outcome.engine


\* The engine's sampling weights of an entity at a period, as calc would
\* hand them on (rounded like every float result).
WeightsAt(sim, entity, period) ==
    LET w == Calculate(Env(sim, classes, dataset), sim.cache, WeightVariable(entity), period)
    IN [i \in DOMAIN w.val.a |-> Round2(w.val.a[i])]

\* C14: a weighted result carries as many weights as values, in the order of
\* the result's entity (the target entity under map_to, else the variable's
\* own), and they are that entity's weights at the requested period.
C14_WeightsOfResultEntityAndPeriod ==
    ( /\ outcome.op = "calc"
      /\ outcome.kind = "return"
      /\ outcome.args.weighted
      /\ outcome.args.how = NoneVal
      /\ outcome.args.period.unit # "month" ) =>
        LET sim == sims[outcome.sim]
            entity == IF outcome.args.map_to # NoneVal THEN outcome.args.map_to
                      ELSE sim.system.variables[outcome.args.var].entity
            period == IF outcome.args.period.unit = "none" THEN YearP(sim.year)
                      ELSE outcome.args.period
        IN /\ Len(outcome.weights.a) = Len(outcome.val.a)
           /\ Len(outcome.weights.a) = Count(dataset, entity)
           /\ outcome.weights.a = WeightsAt(sim, entity, period)


\* C15: every (variable, period) pair of the dataset is either set or
\* skipped, the simulation is built, and the warnings of load_dataset are one
\* batch warning exactly when a pair was skipped, which lists the skipped keys.
C15_SkippedInputsWarned ==
    \A s \in DOMAIN sims :
        LET keys == DataKeys(sims[s].year)
            sim == sims[s]
        IN /\ \A i \in DOMAIN keys :
                keys[i] \in sim.inputs \/ \E j \in DOMAIN sim.skipped : sim.skipped[j] = keys[i].var
           /\ Len(sim.warnings) = (IF Len(sim.skipped) > 0 THEN 1 ELSE 0)
           /\ \A w \in DOMAIN sim.warnings :
                /\ sim.warnings[w].count = Len(sim.skipped)
                /\ sim.warnings[w].listed = sim.skipped


\* The total of the values a holds for the persons in S.
RECURSIVE MemberTotal(_, _)
MemberTotal(a, S) ==
    IF S = {} THEN 0
    ELSE LET p == CHOOSE q \in S : TRUE IN a[p] + MemberTotal(a, S \ {p})

\* The orders the n person records can be stored in.
PersonOrders(n) == {order \in [1 .. n -> 1 .. n] : Range(order) = 1 .. n}
Reorder(a, order) == [i \in DOMAIN a |-> a[order[i]]]
\* The dataset with its person records, membership keys included, reordered.
Reordered(d, order) ==
    [d EXCEPT !.P_household_id = Reorder(@, order), !.P_benunit_id = Reorder(@, order)]

PersonSumReturned ==
    /\ outcome.op = "calc"
    /\ outcome.kind = "return"
    /\ outcome.args.weighted
    /\ outcome.args.map_to \in {"benunit", "household"}
    /\ outcome.args.how \in {NoneVal, "sum"}
    /\ sims[outcome.sim].system.variables[outcome.args.var].entity = "person"

\* C16: a person variable reduced to a group by sum has one value per group
\* instance, in the group's order, each the total of the group's members, and
\* no reordering of the person records (values and membership keys alike)
\* changes any group's value.
C16_GroupSumPermutationInvariant ==
    PersonSumReturned =>
        LET entity == outcome.args.map_to
            persons == Converted(sims[outcome.sim].system.variables[outcome.args.var],
                                 outcome.engine).a
        IN /\ DOMAIN outcome.val.a = 1 .. Count(dataset, entity)
           /\ \A g \in 1 .. Count(dataset, entity) :
                outcome.val.a[g] = MemberTotal(persons, Members(dataset, entity, g))
           /\ \A order \in PersonOrders(NPersons(dataset)) :
                GroupSum(Reordered(dataset, order), entity, Reorder(persons, order))
                    = outcome.val.a

\* The household of two persons with incomes 1000 and 2000 gets 3000.
C16_Witness ==
    /\ PersonSumReturned
    /\ outcome.args.map_to = "household"
    /\ \E g \in DOMAIN outcome.val.a :
        /\ outcome.val.a[g] = 3000 * Unit
        /\ {outcome.engine.a[p] : p \in Members(dataset, "household", g)}
               = {1000 * Unit, 2000 * Unit}


(***************************************************************************)
(* variables/tax/income_tax/relief.py: the variables of the file, and the  *)
(* evaluation of one of them for one person.  A period is a year-long      *)
(* period that starts on the first day of month m of year y.  Each         *)
(* request (person(name, period) in a formula, or the request from         *)
(* outside) is a frame on the stack of calculations in progress.           *)
(***************************************************************************)
Instant(y, m, d) == [y |-> y, m |-> m, d |-> d]
\* formula_2004_07_22
PensionReliefStart == Instant(2004, 7, 22)

NotAfter(a, b) ==
    \/ a.y < b.y
    \/ a.y = b.y /\ a.m < b.m
    \/ a.y = b.y /\ a.m = b.m /\ a.d <= b.d

ReliefPeriod(y, m) == [y |-> y, m |-> m]
PeriodStart(p) == Instant(p.y, p.m, 1)
\* A plausible slip: the previous loss is asked for at the period itself.
LastYearSamePeriod(p) == p

\* period.last_year
LastYear(p) == [p EXCEPT !.y = @ - 1]

\* The classes of relief.py that define a formula.
ReliefFormulas ==
    {"taxable_employment_income", "employment_deductions", "pension_contributions_relief",
     "taxable_savings_interest_income", "loss_relief", "taxable_pension_income",
     "taxable_social_security_income", "taxable_trading_income",
     "taxable_property_income", "taxable_dividend_income",
     "taxable_miscellaneous_income", "total_income", "adjusted_net_income"}

\* The date a variable's formula takes effect: the suffix of its name, or
\* the beginning of time for a plain formula.
FormulaStart(var) ==
    IF var = "pension_contributions_relief" THEN PensionReliefStart ELSE Instant(1, 1, 1)

\* A plausible slip: the effective date is compared by its year alone.
FormulaActiveByYear(var, p) ==
    var \in ReliefFormulas /\ FormulaStart(var).y <= PeriodStart(p).y

\* The formula that applies to a period is the one in effect when the
\* period starts; a variable without one takes its default.
FormulaActive(var, p) ==
    var \in ReliefFormulas /\ NotAfter(FormulaStart(var), PeriodStart(p))

AtPeriod(names, p) == [i \in DOMAIN names |-> Key(names[i], p)]

\* The requests a formula makes, in the order its body makes them.
Requests(var, p) ==
    CASE var = "taxable_employment_income" ->
            AtPeriod(<<"employment_income", "employment_deductions">>, p)
      [] var = "employment_deductions" ->
            AtPeriod(<<"pension_contributions_relief", "employment_expenses">>, p)
      [] var = "pension_contributions_relief" ->
            AtPeriod(<<"pension_contributions", "employment_income", "age">>, p)
      [] var = "taxable_savings_interest_income" ->
            AtPeriod(<<"savings_interest_income", "ISA_interest_income">>, p)
      [] var = "loss_relief" ->
            <<Key("trading_loss", p), Key("trading_loss", LastYear(p))>>
      [] var = "taxable_pension_income" -> AtPeriod(<<"pension_income">>, p)
      [] var = "taxable_social_security_income" ->
            AtPeriod(<<"social_security_income">>, p)
      [] var = "taxable_trading_income" ->
            AtPeriod(<<"trading_income", "loss_relief", "capital_allowances">>, p)
      [] var = "taxable_property_income" -> AtPeriod(<<"property_income">>, p)
      [] var = "taxable_dividend_income" ->
            AtPeriod(<<"dividend_income", "deficiency_relief">>, p)
      [] var = "taxable_miscellaneous_income" -> AtPeriod(<<"miscellaneous_income">>, p)
      [] var = "total_income" ->
            AtPeriod(<<"employment_income", "pension_income", "social_security_income",
                       "trading_income", "property_income", "savings_interest_income",
                       "dividend_income", "miscellaneous_income">>, p)
      [] var = "adjusted_net_income" ->
            AtPeriod(<<"taxable_employment_income", "taxable_pension_income",
                       "taxable_social_security_income", "taxable_trading_income",
                       "taxable_property_income", "taxable_savings_interest_income",
                       "taxable_dividend_income", "taxable_miscellaneous_income">>, p)

Larger(a, b) == IF a >= b THEN a ELSE b
Smaller(a, b) == IF a <= b THEN a ELSE b

\* What a formula returns from the values v its requests gave, in order.
FormulaValue(var, v, params) ==
    CASE var \in {"taxable_employment_income", "taxable_savings_interest_income",
                  "taxable_dividend_income"} ->
            Larger(0, v[1] - v[2])
      [] var = "pension_contributions_relief" ->
            Smaller(v[2], Larger(params.basic_amount, v[1])) * B2I(v[3] < 75)
      [] var = "taxable_trading_income" -> Larger(0, v[1] - (v[2] + v[3]))
      [] OTHER -> SumSeq(v)

\* The inputs the person's record supplies.
ReliefInputs ==
    [employment_income : {3000, 5000},
     pension_contributions : {0, 4000},
     age : {74, 75},
     trading_income : {0, 500},
     trading_loss : [2003 .. 2005 -> {0, 100}],
     basic_amount : {3600}]

\* The holder's array for an input variable at a period, if one was set.
HasInput(var, p) ==
    \/ var \in {"employment_income", "pension_contributions", "age", "trading_income"}
    \/ var = "trading_loss" /\ p.y \in 2003 .. 2005
InputValue(inp, var, p) ==
    IF var = "trading_loss" THEN inp.trading_loss[p.y] ELSE inp[var]

ReliefRequests ==
    { Key(var, ReliefPeriod(y, m)) :
        var \in {"pension_contributions_relief", "loss_relief",
                 "taxable_trading_income", "adjusted_net_income"},
        y \in 2004 .. 2005, m \in {1, 8} }

Frame(k) == [key |-> k, entered |-> FALSE, pending |-> <<>>, got |-> <<>>]

Put(cache, k, val) ==
    [x \in DOMAIN cache \cup {k} |-> IF x = k THEN val ELSE cache[x]]

\* The end of a calculation: the value goes to the requesting formula, or
\* out to the caller when the request came from outside.
Finished(r, val, cache) ==
    IF Len(r.stack) = 1
    THEN [r EXCEPT !.status = "done", !.stack = <<>>, !.cache = cache, !.result = val]
    ELSE [r EXCEPT !.stack = Append(SubSeq(r.stack, 1, Len(r.stack) - 2),
                                    [r.stack[Len(r.stack) - 1] EXCEPT
                                        !.got = Append(@, val)]),
                   !.cache = cache]

Top == relief.stack[Len(relief.stack)]

\* simulation.calculate(name, period) from outside, on a fresh simulation.
ReliefRequest ==
    /\ relief.status = "idle"
    /\ \E inp \in ReliefInputs, k \in ReliefRequests :
        relief' = [status |-> "running", inp |-> inp, request |-> k,
                   stack |-> <<Frame(k)>>, cache |-> <<>>, log |-> <<k>>,
                   result |-> 0, err |-> ""]
    /\ UNCHANGED <<dataset, classes, nextObj, sims, outcome, tools, benefit>>

\* The start of a calculation: a value the holder has is returned; else the
\* request is checked against the calculations in progress and the formula
\* in effect at the period, if any, starts.
ReliefEnter ==
    /\ relief.status = "running"
    /\ ~Top.entered
    /\ relief' =
        IF Top.key \in DOMAIN relief.cache
        THEN Finished(relief, relief.cache[Top.key], relief.cache)
        ELSE IF HasInput(Top.key.var, Top.key.period)
        THEN Finished(relief, InputValue(relief.inp, Top.key.var, Top.key.period),
                      relief.cache)
        ELSE IF \E i \in 1 .. Len(relief.stack) - 1 : relief.stack[i].key = Top.key
        THEN [relief EXCEPT !.status = "error", !.err = "CycleError"]
        ELSE [relief EXCEPT !.stack[Len(relief.stack)] =
                [@ EXCEPT !.entered = TRUE,
                          !.pending = IF FormulaActive(Top.key.var, Top.key.period)
                                      THEN Requests(Top.key.var, Top.key.period)
                                      ELSE <<>>]]
    /\ UNCHANGED <<dataset, classes, nextObj, sims, outcome, tools, benefit>>

\* person(name, period) inside a formula: the next request of the body.
ReliefNested ==
    /\ relief.status = "running"
    /\ Top.entered
    /\ Len(Top.pending) > 0
    /\ relief' = [relief EXCEPT
                    !.stack = Append([@ EXCEPT ![Len(relief.stack)].pending = Tail(@)],
                                     Frame(Head(Top.pending))),
                    !.log = Append(@, Head(Top.pending))]
    /\ UNCHANGED <<dataset, classes, nextObj, sims, outcome, tools, benefit>>

\* The formula's return (the default when none is in effect), cached.
ReliefReturn ==
    /\ relief.status = "running"
    /\ Top.entered
    /\ Len(Top.pending) = 0
    /\ LET Then(val) == Finished(relief, val, Put(relief.cache, Top.key, val))
       IN relief' = Then(IF FormulaActive(Top.key.var, Top.key.period)
                         THEN FormulaValue(Top.key.var, Top.got, relief.inp)
                         ELSE 0)
    /\ UNCHANGED <<dataset, classes, nextObj, sims, outcome, tools, benefit>>

\* The caller is done with the simulation.
ReliefDrop ==
    /\ relief.status \in {"done", "error"}
    /\ relief' = ReliefIdle
    /\ UNCHANGED <<dataset, classes, nextObj, sims, outcome, tools, benefit>>

ReliefNext ==
    \/ ReliefRequest
    \/ ReliefEnter
    \/ ReliefNested
    \/ ReliefReturn
    \/ ReliefDrop

\* Every calculation that can take a step eventually takes one.
ReliefSpec == Init /\ [][ReliefNext]_vars /\ WF_vars(ReliefNext)


\* What pension_contributions_relief is for the person at a period: nothing
\* before 22 July 2004, and from then on the smaller of the pay and the
\* larger of the basic amount and the contributions, for those under 75.
PensionReliefExpected(inp, p) ==
    IF p.y < 2004 \/ (p.y = 2004 /\ p.m <= 7) THEN 0
    ELSE IF inp.age >= 75 THEN 0
    ELSE Smaller(inp.employment_income, Larger(inp.basic_amount, inp.pension_contributions))

\* C17: every value computed for pension_contributions_relief, requested
\* from outside or by another formula, is the default 0 for a period that
\* starts before 2004-07-22 and the formula's value for a later one.
C17_PensionReliefByEffectiveDate ==
    relief.status # "idle" =>
        /\ \A k \in DOMAIN relief.cache :
                k.var = "pension_contributions_relief" =>
                    relief.cache[k] = PensionReliefExpected(relief.inp, k.period)
        /\ (relief.status = "done" /\ relief.request.var = "pension_contributions_relief") =>
                relief.result = PensionReliefExpected(relief.inp, relief.request.period)

\* The relief of a person under 75 for the year from August 2004: the basic
\* amount, larger than the contributions and smaller than the pay.
C17_Witness ==
    /\ relief.status = "done"
    /\ relief.request = Key("pension_contributions_relief", ReliefPeriod(2004, 8))
    /\ relief.inp.age < 75
    /\ relief.inp.pension_contributions < relief.inp.basic_amount
    /\ relief.inp.basic_amount < relief.inp.employment_income
    /\ relief.result = relief.inp.basic_amount

LossReliefSafe ==
    relief.status # "idle" =>
        /\ relief.status # "error"
        /\ \A i, j \in DOMAIN relief.stack :
                relief.stack[i].key = relief.stack[j].key => i = j
        /\ (relief.status = "done" /\ relief.request.var = "loss_relief") =>
                LET p == relief.request.period
                IN /\ relief.log = <<relief.request,
                                     Key("trading_loss", p),
                                     Key("trading_loss", ReliefPeriod(p.y - 1, p.m))>>
                   /\ relief.result = relief.inp.trading_loss[p.y]
                                        + relief.inp.trading_loss[p.y - 1]
        /\ \A i \in DOMAIN relief.log :
                relief.log[i].var = "trading_loss" =>
                    relief.log[i].period.y >= relief.request.period.y - 1

\* C18: loss_relief at p asks for trading_loss at p and at the year before,
\* in that order and nothing else, and returns their sum; no request, of
\* adjusted_net_income included, meets itself in progress, and every
\* evaluation that starts ends with a value.
C18_LossReliefTerminates ==
    /\ []LossReliefSafe
    /\ (relief.status = "running") ~> (relief.status = "done")

C18_Witness ==
    /\ relief.status = "done"
    /\ relief.request.var = "loss_relief"
    /\ relief.inp.trading_loss[relief.request.period.y] = 100
    /\ relief.inp.trading_loss[relief.request.period.y - 1] = 100
    /\ relief.result = 200


\* The factor a perturbed subclass multiplies the formula output of the
\* persons it perturbs by, as a fraction [n, d] over 1: 1 + delta.
PercentFactor(altered) == [n |-> altered.delta.d + altered.delta.n, d |-> altered.delta.d]
SameFraction(x, y) == x.n * y.d = y.n * x.d

\* C19: with percent=True the group branch perturbs by the factor
\* 1 + delta/100, as the same-entity branch does, and the delta it works
\* with stays the caller's from one member index to the next.
C19_PercentFactorPerIndex ==
    (outcome.op = "deriv" /\ outcome.args.percent /\ Len(outcome.altered) > 0) =>
        /\ \A k \in DOMAIN outcome.altered :
            /\ outcome.altered[k].op = "mul"
            /\ SameFraction(PercentFactor(outcome.altered[k]),
                            [n |-> 100 + outcome.args.delta.n, d |-> 100])
        /\ outcome.mode = "group-entity" => SameFraction(outcome.locals.delta, outcome.args.delta)


TwoHopReturned ==
    /\ outcome.op = "calc"
    /\ outcome.kind = "return"
    /\ outcome.args.weighted
    /\ outcome.args.map_to \in {"benunit", "household"}
    /\ sims[outcome.sim].system.variables[outcome.args.var].entity
            \in {"benunit", "household"} \ {outcome.args.map_to}

\* The value of each source group shared equally among its persons.
PersonShares(d, entity, a) ==
    [p \in 1 .. NPersons(d) |->
        a[Membership(d, entity)[p]]
            \div Cardinality(Members(d, entity, Membership(d, entity)[p]))]

\* C20: a benunit variable mapped to household, or a household variable
\* mapped to benunit, gives each target group the total of the equal shares
\* of its persons in their source groups, whatever `how` the caller passed,
\* and the total over the target instances is the total over the source
\* instances (every source group has a person).
C20_TwoHopMeanThenSum ==
    TwoHopReturned =>
        LET meta == sims[outcome.sim].system.variables[outcome.args.var]
            source == Converted(meta, outcome.engine).a
            shares == PersonShares(dataset, meta.entity, source)
        IN /\ DOMAIN outcome.val.a = 1 .. Count(dataset, outcome.args.map_to)
           /\ \A t \in DOMAIN outcome.val.a :
                outcome.val.a[t] =
                    MemberTotal(shares, Members(dataset, outcome.args.map_to, t))
           /\ SumSeq(outcome.val.a) = SumSeq(source)

\* A household value mapped to benunit under a `how` the two-hop path
\* ignores, where the persons of one household are in different benunits.
C20_Witness ==
    /\ TwoHopReturned
    /\ outcome.args.map_to = "benunit"
    /\ outcome.args.how = "max"
    /\ \E p, q \in 1 .. NPersons(dataset) :
        /\ dataset.P_household_id[p] = dataset.P_household_id[q]
        /\ dataset.P_benunit_id[p] # dataset.P_benunit_id[q]
    /\ outcome.val.a # outcome.engine.a


(***************************************************************************)
(* variables/government/dwp/pension_credit.py, evaluated for the benefit   *)
(* units of the dataset.  Amounts are whole pounds a year, rates and       *)
(* random draws are hundredths.  inp holds the inputs of one evaluation:   *)
(* the formulas' input variables, the parameters and the numbers           *)
(* random(benunit) drew.                                                   *)
(***************************************************************************)
BenUnits(d) == 1 .. Count(d, "benunit")

\* aggr(benunit, period, ["pension_credit_reported"]) > 0
ReportedPC(d, inp, b) ==
    MemberTotal(inp.pension_credit_reported, Members(d, "benunit", b)) > 0

\* random(benunit) < takeup_rate
ImputedTakeup(inp, b) == inp.random[b] < inp.params.takeup

\* A plausible slip: the literal True is left out of the disjunction.
WouldClaimPCWithoutTrue(d, inp, b) ==
    \/ inp.claims_all_entitled_benefits[b]
    \/ ImputedTakeup(inp, b)
    \/ ReportedPC(d, inp, b)

\* would_claim_PC: True | claims_all_entitled_benefits | imputed_takeup | reported_pc
WouldClaimPC(d, inp, b) ==
    \/ TRUE
    \/ inp.claims_all_entitled_benefits[b]
    \/ ImputedTakeup(inp, b)
    \/ ReportedPC(d, inp, b)

\* pension_credit_eligible: all_SP_age | (any_SP_age & claiming_HB)
PensionCreditEligible(d, inp, b) ==
    \/ \A p \in Members(d, "benunit", b) : inp.is_SP_age[p]
    \/ /\ \E p \in Members(d, "benunit", b) : inp.is_SP_age[p]
       /\ inp.housing_benefit > 0

\* relation_type: a benefit unit of one adult or of a couple.
RelationType(d, b) ==
    IF Cardinality(Members(d, "benunit", b)) > 1 THEN "COUPLE" ELSE "SINGLE"

\* pension_credit_MG
PensionCreditMG(d, inp, b) ==
    (inp.params.minimum_guarantee[RelationType(d, b)] * inp.params.weeks
        + inp.premiums + inp.params.child * inp.num_children)
    * B2I(PensionCreditEligible(d, inp, b))
    * B2I(WouldClaimPC(d, inp, b))

\* pension_credit_GC
PensionCreditGC(d, inp, b) ==
    B2I(PensionCreditEligible(d, inp, b))
    * Larger(0, PensionCreditMG(d, inp, b) - inp.guarantee_credit_applicable_income)

\* x * rate, the rate in hundredths
AtRate(rate, x) == (rate * x) \div 100

\* pension_credit_SC
PensionCreditSC(d, inp, b) ==
    LET SC == inp.params.savings_credit
        Amount(income, appropriate_amount, threshold) ==
            Larger(Smaller(AtRate(100 - SC.withdrawal_rate, Larger(income - threshold, 0)),
                           \* maximum_amount
                           AtRate(100 - SC.withdrawal_rate,
                                  Larger(appropriate_amount - threshold, 0)))
                   \* amount_A - amount_B
                   - AtRate(SC.withdrawal_rate, Larger(income - appropriate_amount, 0)),
                   0)
    IN Amount(\* savings_credit_applicable_income
              Larger(inp.guarantee_credit_applicable_income - inp.exempted_benefits, 0),
              PensionCreditMG(d, inp, b),
              SC.income_threshold[RelationType(d, b)] * inp.params.weeks)
       * B2I(PensionCreditEligible(d, inp, b))

\* pension_credit: add(benunit, period, COMPONENTS) * would_claim_PC
PensionCredit(d, inp, b) ==
    (PensionCreditGC(d, inp, b) + PensionCreditSC(d, inp, b)) * B2I(WouldClaimPC(d, inp, b))

TakeupRates == {0, 50}
PensionParams ==
    [takeup : TakeupRates,
     minimum_guarantee : {[SINGLE |-> 170, COUPLE |-> 260]},
     child : {50},
     weeks : {52},
     savings_credit :
        {[income_threshold |-> [SINGLE |-> 150, COUPLE |-> 240], withdrawal_rate |-> 40]}]

RandomDraws(d) == [BenUnits(d) -> {20, 80}]
ClaimsAll(d) ==
    {[b \in BenUnits(d) |-> FALSE], [b \in BenUnits(d) |-> b = 1],
     [b \in BenUnits(d) |-> TRUE]}
ReportedAmounts(d) ==
    {[p \in 1 .. NPersons(d) |-> 0], [p \in 1 .. NPersons(d) |-> IF p = 1 THEN 50 ELSE 0]}

\* The inputs of an evaluation over dataset d.
PensionInputs(d) ==
    [random : RandomDraws(d),
     claims_all_entitled_benefits : ClaimsAll(d),
     pension_credit_reported : ReportedAmounts(d),
     is_SP_age :
        {[p \in 1 .. NPersons(d) |-> TRUE], [p \in 1 .. NPersons(d) |-> p = 1]},
     housing_benefit : {0, 100},
     premiums : {0},
     num_children : {0, 1},
     guarantee_credit_applicable_income : {0, 8000, 12000},
     exempted_benefits : {0},
     params : PensionParams]

\* simulation.calculate("pension_credit", period), with what it computed on
\* the way.
PensionEvaluate ==
    /\ benefit.op = "none"
    /\ \E inp \in PensionInputs(dataset) :
        benefit' = [op |-> "pension_credit",
                    inp |-> inp,
                    would_claim_PC |->
                        [b \in BenUnits(dataset) |-> WouldClaimPC(dataset, inp, b)],
                    pension_credit_GC |->
                        [b \in BenUnits(dataset) |-> PensionCreditGC(dataset, inp, b)],
                    pension_credit_SC |->
                        [b \in BenUnits(dataset) |-> PensionCreditSC(dataset, inp, b)],
                    pension_credit |->
                        [b \in BenUnits(dataset) |-> PensionCredit(dataset, inp, b)]]
    /\ UNCHANGED <<dataset, classes, nextObj, sims, outcome, tools, relief>>

\* The caller is done with the result.
BenefitDrop ==
    /\ benefit.op # "none"
    /\ benefit' = BenefitIdle
    /\ UNCHANGED <<dataset, classes, nextObj, sims, outcome, tools, relief>>

PensionNext ==
    \/ PensionEvaluate
    \/ BenefitDrop

PensionSpec == Init /\ [][PensionNext]_vars

\* The evaluations that differ from inp at most in the random numbers drawn,
\* the take-up rate, the reported Pension Credit and the claims-all flag.
TakeUpVariants(d, inp) ==
    {[inp EXCEPT !.random = r,
                 !.claims_all_entitled_benefits = c,
                 !.pension_credit_reported = reported,
                 !.params.takeup = t] :
        r \in RandomDraws(d), c \in ClaimsAll(d), reported \in ReportedAmounts(d),
        t \in TakeupRates}

\* C21: would_claim_PC is true for every benefit unit, so pension_credit is
\* pension_credit_GC + pension_credit_SC, and neither changes when the
\* evaluation is repeated with other random numbers, another take-up rate,
\* other reported Pension Credit or other claims-all flags.
C21_WouldClaimIgnoresTakeUpDraw ==
    benefit.op = "pension_credit" =>
        \A b \in BenUnits(dataset) :
            /\ benefit.would_claim_PC[b]
            /\ benefit.pension_credit[b]
                   = benefit.pension_credit_GC[b] + benefit.pension_credit_SC[b]
            /\ \A other \in TakeUpVariants(dataset, benefit.inp) :
                /\ WouldClaimPC(dataset, other, b) = benefit.would_claim_PC[b]
                /\ PensionCredit(dataset, other, b) = benefit.pension_credit[b]

\* An evaluation in which no benefit unit claims everything, none reported
\* Pension Credit, every draw is above the take-up rate, and some benefit
\* unit gets both credits.
C21_Witness ==
    /\ benefit.op = "pension_credit"
    /\ \A b \in BenUnits(dataset) :
        /\ ~benefit.inp.claims_all_entitled_benefits[b]
        /\ benefit.inp.random[b] >= benefit.inp.params.takeup
    /\ \A p \in 1 .. NPersons(dataset) : benefit.inp.pension_credit_reported[p] = 0
    /\ \E b \in BenUnits(dataset) :
        /\ benefit.pension_credit_SC[b] > 0
        /\ benefit.pension_credit[b] > benefit.pension_credit_SC[b]


(***************************************************************************)
(* variables/contrib/ubi_center/basic_income/bi_phaseout.py, evaluated for *)
(* the persons and households of the dataset.  Amounts are hundreds of     *)
(* pounds, rates are hundredths; the share percent_reduction is kept as an *)
(* exact fraction [n, d].                                                  *)
(***************************************************************************)
Persons(d) == 1 .. NPersons(d)

\* bi_individual_phaseout
BiIndividualPhaseout(inp, p) ==
    Smaller(inp.bi_maximum[p],
            AtRate(inp.params.individual.rate,
                   Larger(inp.total_income[p] - inp.params.individual.threshold, 0)))

\* remaining_bi: basic income remaining after individual-level phase-outs
RemainingBi(inp, p) == inp.bi_maximum[p] - BiIndividualPhaseout(inp, p)

\* person.household.sum(array): the household's total, for each of its persons
HouseholdTotal(d, a, p) ==
    MemberTotal(a, Members(d, "household", d.P_household_id[p]))

\* A plausible slip: the deduction is not capped at the household's remaining
\* basic income.
CappedDeductionWithoutCap(household_bi, uncapped_deduction) == uncapped_deduction

\* capped_deduction = min_(household_bi, uncapped_deduction)
CappedDeduction(household_bi, uncapped_deduction) ==
    Smaller(household_bi, uncapped_deduction)

\* percent_reduction = where(household_bi > 0, capped_deduction / household_bi, 0)
PercentReduction(household_bi, capped_deduction) ==
    IF household_bi > 0 THEN [n |-> capped_deduction, d |-> household_bi]
    ELSE [n |-> 0, d |-> 1]

\* bi_household_phaseout
BiHouseholdPhaseout(d, inp, p) ==
    LET Reduced(percent_reduction) ==
            [n |-> percent_reduction.n * RemainingBi(inp, p), d |-> percent_reduction.d]
        Share(household_bi, uncapped_deduction) ==
            Reduced(PercentReduction(household_bi,
                                     CappedDeduction(household_bi, uncapped_deduction)))
    IN Share(HouseholdTotal(d, [q \in Persons(d) |-> RemainingBi(inp, q)], p),
             AtRate(inp.params.household.rate,
                    Larger(HouseholdTotal(d, inp.total_income, p)
                               - inp.params.household.threshold, 0)))

\* bi_phaseout = sum_of_variables(["bi_individual_phaseout", "bi_household_phaseout"])
BiPhaseout(d, inp, p) ==
    LET Sum(individual, household) ==
            [n |-> individual * household.d + household.n, d |-> household.d]
    IN Sum(BiIndividualPhaseout(inp, p), BiHouseholdPhaseout(d, inp, p))

\* parameters(period).contrib.ubi_center.basic_income.phase_out
PhaseOutParams ==
    [individual : [rate : {0, 50}, threshold : {0, 500}],
     household : [rate : {0, 50, 150}, threshold : {0, 500}]]

PhaseoutInputs(d) ==
    [total_income : [Persons(d) -> {0, 600}],
     bi_maximum : [Persons(d) -> {0, 50}],
     params : PhaseOutParams]

\* simulation.calculate("bi_phaseout", period), with what it computed on the
\* way.
PhaseoutEvaluate ==
    /\ benefit.op = "none"
    /\ \E inp \in PhaseoutInputs(dataset) :
        benefit' = [op |-> "bi_phaseout",
                    inp |-> inp,
                    bi_individual_phaseout |->
                        [p \in Persons(dataset) |-> BiIndividualPhaseout(inp, p)],
                    bi_household_phaseout |->
                        [p \in Persons(dataset) |-> BiHouseholdPhaseout(dataset, inp, p)],
                    bi_phaseout |->
                        [p \in Persons(dataset) |-> BiPhaseout(dataset, inp, p)]]
    /\ UNCHANGED <<dataset, classes, nextObj, sims, outcome, tools, relief>>

PhaseoutNext ==
    \/ PhaseoutEvaluate
    \/ BenefitDrop

PhaseoutSpec == Init /\ [][PhaseoutNext]_vars

\* The household's remaining basic income and its uncapped reduction, from
\* the inputs and the individual phase-outs of an evaluation.
HouseholdRemaining(h) ==
    MemberTotal([p \in Persons(dataset) |->
                    benefit.inp.bi_maximum[p] - benefit.bi_individual_phaseout[p]],
                Members(dataset, "household", h))
HouseholdUncapped(h) ==
    LET income == MemberTotal(benefit.inp.total_income, Members(dataset, "household", h))
        over == IF income > benefit.inp.params.household.threshold
                THEN income - benefit.inp.params.household.threshold ELSE 0
    IN (benefit.inp.params.household.rate * over) \div 100

\* C22: for every person the total phase-out is the individual plus the
\* household phase-out and lies between 0 and bi_maximum; the household
\* phase-outs of a household's members add up to the smaller of the
\* household's remaining basic income and its rate times its income above
\* the threshold; and they are 0 when nothing remains.
C22_PhaseoutWithinMaximum ==
    benefit.op = "bi_phaseout" =>
        /\ \A p \in Persons(dataset) :
            LET total == benefit.bi_phaseout[p]
                share == benefit.bi_household_phaseout[p]
            IN /\ total.d > 0 /\ share.d > 0
               /\ total.n * share.d
                    = (benefit.bi_individual_phaseout[p] * share.d + share.n) * total.d
               /\ 0 <= total.n
               /\ total.n <= benefit.inp.bi_maximum[p] * total.d
               /\ HouseholdRemaining(dataset.P_household_id[p]) = 0 => share.n = 0
        /\ \A h \in GroupsOf("household") :
            \A m \in Members(dataset, "household", h) :
                MemberTotal([p \in Persons(dataset) |-> benefit.bi_household_phaseout[p].n],
                            Members(dataset, "household", h))
                    = Smaller(HouseholdRemaining(h), HouseholdUncapped(h))
                        * benefit.bi_household_phaseout[m].d

\* An evaluation with a household of two members who share a household
\* reduction smaller than what remains, and a household with income above
\* the threshold and no basic income left.
C22_Witness ==
    /\ benefit.op = "bi_phaseout"
    /\ \E h \in GroupsOf("household") :
        /\ \E p, q \in Members(dataset, "household", h) :
            /\ p # q
            /\ benefit.bi_household_phaseout[p].n > 0
            /\ benefit.bi_household_phaseout[q].n > 0
        /\ 0 < HouseholdUncapped(h)
        /\ HouseholdUncapped(h) < HouseholdRemaining(h)
    /\ \E h \in GroupsOf("household") :
        /\ HouseholdRemaining(h) = 0
        /\ HouseholdUncapped(h) > 0

====
